---- MODULE Spec2Model ----
(***************************************************************************)
(* A model of the cinic .ini parser (src/src/cinic.c).                     *)
(*                                                                         *)
(* C strings are modelled as TLA+ strings; a `char *` into a buffer is the *)
(* suffix of the buffer that starts at the pointer, and the terminating    *)
(* NUL is the empty string returned by At() past the end.                  *)
(***************************************************************************)
EXTENDS Integers, Sequences, FiniteSets, TLC

(***************************************************************************)
(* Program constants                                                       *)
(***************************************************************************)
MAX_LINE_LEN == 1024

\* enum cinic_list_state
LIST_HEAD    == 5
LIST_OPEN    == 4
LIST_ONGOING == 2
LIST_LAST    == 1
NOLIST       == 0

ListStates == {NOLIST, LIST_LAST, LIST_ONGOING, LIST_OPEN, LIST_HEAD}

\* enum cinic_error
CINIC_SUCCESS           == 0
CINIC_NOSECTION         == 1
CINIC_MALFORMED         == 2
CINIC_MALFORMED_LIST    == 3
CINIC_TOOLONG           == 4
CINIC_NESTED            == 5
CINIC_NOLIST            == 6
CINIC_EMPTY_LIST        == 7
CINIC_MISSING_COMMA     == 8
CINIC_REDUNDANT_COMMA   == 9
CINIC_REDUNDANT_BRACKET == 10
CINIC_LIST_NOT_STARTED  == 11
CINIC_LIST_NOT_ENDED    == 12
CINIC_SENTINEL          == 13

\* const char *LIST_BRACKET = "[]"
LIST_BRACKET == "[]"

\* static const char *cinic_error_strings[] (the sentinel entry is NULL)
cinic_error_strings ==
    [e \in CINIC_SUCCESS..(CINIC_SENTINEL - 1) |->
        CASE e = CINIC_SUCCESS           -> "Success"
          [] e = CINIC_NOSECTION         -> "entry without section"
          [] e = CINIC_MALFORMED         -> "malformed/syntacticaly incorrect"
          [] e = CINIC_MALFORMED_LIST    -> "malformed/syntacticaly incorrect list"
          [] e = CINIC_TOOLONG           -> "line length exceeds maximum acceptable length(1024U)"
          [] e = CINIC_NESTED            -> "illegal nesting (unterminated list?)"
          [] e = CINIC_NOLIST            -> "list item without list"
          [] e = CINIC_EMPTY_LIST        -> "malformed list (empty list?)"
          [] e = CINIC_MISSING_COMMA     -> "malformed list entry (previous missing comma?)"
          [] e = CINIC_REDUNDANT_COMMA   -> "malformed list entry (redundant comma?)"
          [] e = CINIC_REDUNDANT_BRACKET -> "malformed list (redundant bracket ?)"
          [] e = CINIC_LIST_NOT_STARTED  -> "malformed list (missing opening bracket ?)"
          [] e = CINIC_LIST_NOT_ENDED    -> "malformed list (unterminated list ?)"]

\* Cinic_err2str(errnum); for errnum >= CINIC_SENTINEL the process exits with
\* "Invalid cinic error number" instead
Cinic_err2str(errnum) ==
    IF errnum >= CINIC_SENTINEL THEN "Invalid cinic error number"
    ELSE cinic_error_strings[errnum]

(***************************************************************************)
(* C string primitives                                                     *)
(***************************************************************************)
NUL == ""

\* s[i-1] in C terms (1-based here); NUL at and past the end of the string
At(s, i) == IF i >= 1 /\ i <= Len(s) THEN SubSeq(s, i, i) ELSE NUL

\* the pointer s + n
Adv(s, n) == SubSeq(s, n + 1, Len(s))

\* the first n characters of s
Take(s, n) == SubSeq(s, 1, IF n < Len(s) THEN n ELSE Len(s))

\* <ctype.h>, "C" locale
isspace(c) == c \in {" ", "\t", "\n", "\r", "\f"}

isalnum(c) == c \in
    {"a","b","c","d","e","f","g","h","i","j","k","l","m",
     "n","o","p","q","r","s","t","u","v","w","x","y","z",
     "A","B","C","D","E","F","G","H","I","J","K","L","M",
     "N","O","P","Q","R","S","T","U","V","W","X","Y","Z",
     "0","1","2","3","4","5","6","7","8","9"}

(***************************************************************************)
(* Text normalisation                                                      *)
(***************************************************************************)
RECURSIVE strip_lws(_)
strip_lws(s) ==
    IF At(s, 1) # NUL /\ isspace(At(s, 1)) THEN strip_lws(Adv(s, 1)) ELSE s

\* variant: one trailing whitespace character at most is removed
strip_tws_one(s) ==
    IF s = NUL THEN s
    ELSE IF isspace(At(s, Len(s))) THEN Take(s, Len(s) - 1)
    ELSE s

RECURSIVE strip_tws(_)
strip_tws(s) ==
    IF s = NUL THEN s
    ELSE IF isspace(At(s, Len(s))) THEN strip_tws(Take(s, Len(s) - 1))
    ELSE s

is_comment(c) == c = ";" \/ c = "#"

\* the least of a set of indices that is not empty
Least(S) == CHOOSE i \in S : \A j \in S : i <= j

\* `while (*s && !is_comment(*s)) ++s; *s = '\0';` : the string is cut at its
\* first comment sign
strip_comment(s) ==
    LET signs == { i \in 1..Len(s) : is_comment(At(s, i)) } IN
    IF signs = {} THEN s ELSE Take(s, Least(signs) - 1)

is_allowed(c, ws_allowed) ==
    \/ c \in {".", "-", "_", "@", "/", "*", "?", "%", "&"}
    \/ isalnum(c)
    \/ (isspace(c) /\ ws_allowed)

\* `while (*line && is_allowed(*line, ws)) ++line;` : the pointer reached, at
\* the first character that is not allowed or at the NUL
skip_allowed(s, ws) ==
    LET stops == { i \in 1..Len(s) : ~is_allowed(At(s, i), ws) } IN
    IF stops = {} THEN NUL ELSE Adv(s, Least(stops) - 1)

\* variant: the line is not rid of its leading whitespace first
is_empty_line_nostrip(line) == line = NUL

is_empty_line(line) == strip_lws(line) = NUL

is_comment_line(line) ==
    LET l == strip_lws(line) IN At(l, 1) # NUL /\ is_comment(At(l, 1))

\* the contents of dst after cp_to_buff(dst, src, buffsz, null_at)
cp_to_buff(src, buffsz, null_at) ==
    LET copied == Take(src, buffsz - 1)              \* memset + strncpy
    IN  IF null_at < buffsz THEN Take(copied, null_at) ELSE copied

\* `buff = strip_lws(buff); strip_comment(buff); strip_tws(buff);` : the line
\* the classifiers are given
normalize(raw) == strip_tws(strip_comment(strip_lws(raw)))

(***************************************************************************)
(* Line classifiers                                                        *)
(***************************************************************************)
\* variant: whitespace is taken as part of the name
is_section_line_ws(line, buffsz) ==
    IF At(line, 1) # "[" THEN [ok |-> FALSE, name |-> NUL]
    ELSE
    LET start == strip_lws(Adv(line, 1)) IN
    IF At(start, 1) = NUL \/ ~is_allowed(At(start, 1), FALSE)
    THEN [ok |-> FALSE, name |-> NUL]
    ELSE
    LET end == skip_allowed(start, TRUE) IN
    IF At(end, 1) = NUL \/ (~isspace(At(end, 1)) /\ At(end, 1) # "]")
    THEN [ok |-> FALSE, name |-> NUL]
    ELSE
    LET l3 == strip_lws(end) IN
    IF At(l3, 1) # "]" THEN [ok |-> FALSE, name |-> NUL]
    ELSE IF Adv(l3, 1) # NUL THEN [ok |-> FALSE, name |-> NUL]
    ELSE [ok |-> TRUE,
          name |-> cp_to_buff(start, buffsz, Len(start) - Len(end))]

is_section_line(line, buffsz) ==
    IF At(line, 1) # "[" THEN [ok |-> FALSE, name |-> NUL]
    ELSE
    LET start == strip_lws(Adv(line, 1)) IN
    IF At(start, 1) = NUL \/ ~is_allowed(At(start, 1), FALSE)
    THEN [ok |-> FALSE, name |-> NUL]
    ELSE
    LET end == skip_allowed(start, FALSE) IN
    IF At(end, 1) = NUL \/ (~isspace(At(end, 1)) /\ At(end, 1) # "]")
    THEN [ok |-> FALSE, name |-> NUL]
    ELSE
    LET l3 == strip_lws(end) IN
    IF At(l3, 1) # "]" THEN [ok |-> FALSE, name |-> NUL]
    ELSE IF Adv(l3, 1) # NUL THEN [ok |-> FALSE, name |-> NUL]
    ELSE [ok |-> TRUE,
          name |-> cp_to_buff(start, buffsz, Len(start) - Len(end))]

\* variant: whitespace is not taken as part of the value
is_record_line_nows(line, buffsz) ==
    IF At(line, 1) = NUL \/ ~is_allowed(At(line, 1), FALSE)
    THEN [ok |-> FALSE, k |-> NUL, v |-> NUL]
    ELSE
    LET key_end == skip_allowed(line, FALSE) IN
    IF At(key_end, 1) = NUL THEN [ok |-> FALSE, k |-> NUL, v |-> NUL]
    ELSE
    LET l2 == strip_lws(key_end) IN
    IF At(l2, 1) # "=" THEN [ok |-> FALSE, k |-> NUL, v |-> NUL]
    ELSE
    LET val == strip_lws(Adv(l2, 1)) IN
    IF At(val, 1) = NUL \/ ~is_allowed(At(val, 1), FALSE)
    THEN [ok |-> FALSE, k |-> NUL, v |-> NUL]
    ELSE
    LET val_end == skip_allowed(val, FALSE) IN
    IF At(val_end, 1) # NUL THEN [ok |-> FALSE, k |-> NUL, v |-> NUL]
    ELSE [ok |-> TRUE,
          k |-> cp_to_buff(line, buffsz, Len(line) - Len(key_end)),
          v |-> cp_to_buff(val, buffsz, Len(val) - Len(val_end))]

is_record_line(line, buffsz) ==
    IF At(line, 1) = NUL \/ ~is_allowed(At(line, 1), FALSE)
    THEN [ok |-> FALSE, k |-> NUL, v |-> NUL]
    ELSE
    LET key_end == skip_allowed(line, FALSE) IN
    IF At(key_end, 1) = NUL THEN [ok |-> FALSE, k |-> NUL, v |-> NUL]
    ELSE
    LET l2 == strip_lws(key_end) IN
    IF At(l2, 1) # "=" THEN [ok |-> FALSE, k |-> NUL, v |-> NUL]
    ELSE
    LET val == strip_lws(Adv(l2, 1)) IN
    IF At(val, 1) = NUL \/ ~is_allowed(At(val, 1), FALSE)
    THEN [ok |-> FALSE, k |-> NUL, v |-> NUL]
    ELSE
    LET val_end == skip_allowed(val, TRUE) IN
    IF At(val_end, 1) # NUL THEN [ok |-> FALSE, k |-> NUL, v |-> NUL]
    ELSE [ok |-> TRUE,
          k |-> cp_to_buff(line, buffsz, Len(line) - Len(key_end)),
          v |-> cp_to_buff(val, buffsz, Len(val) - Len(val_end))]

\* variant: what follows the `=` is not looked at
is_list_head_open(line, buffsz) ==
    IF At(line, 1) = NUL \/ ~is_allowed(At(line, 1), FALSE)
    THEN [ok |-> FALSE, k |-> NUL]
    ELSE
    LET key_end == skip_allowed(line, FALSE) IN
    IF At(key_end, 1) = NUL THEN [ok |-> FALSE, k |-> NUL]
    ELSE
    LET l2 == strip_lws(key_end) IN
    IF At(l2, 1) # "=" THEN [ok |-> FALSE, k |-> NUL]
    ELSE [ok |-> TRUE,
          k |-> cp_to_buff(line, buffsz, Len(line) - Len(key_end))]

is_list_head(line, buffsz) ==
    IF At(line, 1) = NUL \/ ~is_allowed(At(line, 1), FALSE)
    THEN [ok |-> FALSE, k |-> NUL]
    ELSE
    LET key_end == skip_allowed(line, FALSE) IN
    IF At(key_end, 1) = NUL THEN [ok |-> FALSE, k |-> NUL]
    ELSE
    LET l2 == strip_lws(key_end) IN
    IF At(l2, 1) # "=" THEN [ok |-> FALSE, k |-> NUL]
    ELSE IF Adv(l2, 1) # NUL THEN [ok |-> FALSE, k |-> NUL]
    ELSE [ok |-> TRUE,
          k |-> cp_to_buff(line, buffsz, Len(line) - Len(key_end))]

\* variant: `&&` for `||` in the test that rejects the line
is_list_end_and(line) == ~(Len(line) # 1 /\ At(line, 1) # At(LIST_BRACKET, 2))

is_list_end(line) == Len(line) = 1 /\ At(line, 1) = At(LIST_BRACKET, 2)

is_list_start(line) == Len(line) = 1 /\ At(line, 1) = At(LIST_BRACKET, 1)

\* variant: the value is cut one character too late
is_list_entry_long(line, buffsz) ==
    IF At(line, 1) = NUL \/ ~is_allowed(At(line, 1), FALSE)
    THEN [ok |-> FALSE, v |-> NUL, islast |-> FALSE, assert_fails |-> FALSE]
    ELSE
    LET val_end == skip_allowed(line, FALSE)
        l2      == strip_lws(val_end)
    IN
    IF At(l2, 1) # NUL /\ At(l2, 1) # ","
    THEN [ok |-> FALSE, v |-> NUL, islast |-> FALSE, assert_fails |-> FALSE]
    ELSE
    LET last_in_list == (At(l2, 1) = NUL)
        l3 == IF last_in_list THEN l2 ELSE Adv(l2, 1)
    IN  [ok |-> TRUE,
         v |-> cp_to_buff(line, buffsz, Len(line) - Len(val_end) + 1),
         islast |-> last_in_list,
         assert_fails |-> (l3 # NUL)]

\* assert_fails: the assert(! *line) at the end does not hold (abort)
is_list_entry(line, buffsz) ==
    IF At(line, 1) = NUL \/ ~is_allowed(At(line, 1), FALSE)
    THEN [ok |-> FALSE, v |-> NUL, islast |-> FALSE, assert_fails |-> FALSE]
    ELSE
    LET val_end == skip_allowed(line, FALSE)
        l2      == strip_lws(val_end)
    IN
    IF At(l2, 1) # NUL /\ At(l2, 1) # ","
    THEN [ok |-> FALSE, v |-> NUL, islast |-> FALSE, assert_fails |-> FALSE]
    ELSE
    LET last_in_list == (At(l2, 1) = NUL)
        l3 == IF last_in_list THEN l2 ELSE Adv(l2, 1)
    IN  [ok |-> TRUE,
         v |-> cp_to_buff(line, buffsz, Len(line) - Len(val_end)),
         islast |-> last_in_list,
         assert_fails |-> (l3 # NUL)]

(***************************************************************************)
(* List tokenizer                                                          *)
(*                                                                         *)
(* Result: null (the function returned NULL), buff (the token written, or  *)
(* unchanged when nothing was written), next (the pointer returned).       *)
(***************************************************************************)
\* variant: a closing bracket is kept in the token of the item before it
get_list_token_bracket(line0, oldbuff, buffsz) ==
    LET start == strip_tws(strip_comment(strip_lws(line0))) IN
    IF start = NUL THEN [null |-> TRUE, buff |-> oldbuff, next |-> NUL]
    ELSE
    LET line == strip_lws(skip_allowed(start, FALSE))
        c    == At(line, 1)
        \* offset of `line` and of `end` from `start`
        off  == Len(start) - Len(line)
        endoff ==
            IF c = "=" \/ c = At(LIST_BRACKET, 1) \/ c = "," THEN off
            ELSE IF is_allowed(c, FALSE) THEN off - 1
            ELSE IF c = At(LIST_BRACKET, 2)
                 THEN off
            ELSE Len(start) - 1
        tok  == cp_to_buff(start, buffsz, endoff + 1)
    IN  IF At(start, endoff + 1) = NUL
        THEN [null |-> TRUE, buff |-> tok, next |-> NUL]
        ELSE [null |-> FALSE, buff |-> tok, next |-> Adv(start, endoff + 1)]

\* variant: a token that ends with a comma takes the character after the
\* comma with it
get_list_token_past(line0, oldbuff, buffsz) ==
    LET start == strip_tws(strip_comment(strip_lws(line0))) IN
    IF start = NUL THEN [null |-> TRUE, buff |-> oldbuff, next |-> NUL]
    ELSE
    LET line == strip_lws(skip_allowed(start, FALSE))
        c    == At(line, 1)
        \* offset of `line` and of `end` from `start`
        off  == Len(start) - Len(line)
        endoff ==
            IF c = "=" \/ c = At(LIST_BRACKET, 1) THEN off
            ELSE IF c = "," THEN (IF At(line, 2) = NUL THEN off ELSE off + 1)
            ELSE IF is_allowed(c, FALSE) THEN off - 1
            ELSE IF c = At(LIST_BRACKET, 2)
                 THEN (IF is_allowed(At(start, 1), FALSE) THEN off - 1 ELSE off)
            ELSE Len(start) - 1
        tok  == cp_to_buff(start, buffsz, endoff + 1)
    IN  IF At(start, endoff + 1) = NUL
        THEN [null |-> TRUE, buff |-> tok, next |-> NUL]
        ELSE [null |-> FALSE, buff |-> tok, next |-> Adv(start, endoff + 1)]

\* variant: the pointer returned is `end`, not `end + 1`
get_list_token_stuck(line0, oldbuff, buffsz) ==
    LET start == strip_tws(strip_comment(strip_lws(line0))) IN
    IF start = NUL THEN [null |-> TRUE, buff |-> oldbuff, next |-> NUL]
    ELSE
    LET line == strip_lws(skip_allowed(start, FALSE))
        c    == At(line, 1)
        \* offset of `line` and of `end` from `start`
        off  == Len(start) - Len(line)
        endoff ==
            IF c = "=" \/ c = At(LIST_BRACKET, 1) \/ c = "," THEN off
            ELSE IF is_allowed(c, FALSE) THEN off - 1
            ELSE IF c = At(LIST_BRACKET, 2)
                 THEN (IF is_allowed(At(start, 1), FALSE) THEN off - 1 ELSE off)
            ELSE Len(start) - 1
        tok  == cp_to_buff(start, buffsz, endoff + 1)
    IN  IF At(start, endoff + 1) = NUL
        THEN [null |-> TRUE, buff |-> tok, next |-> NUL]
        ELSE [null |-> FALSE, buff |-> tok, next |-> Adv(start, endoff)]

get_list_token(line0, oldbuff, buffsz) ==
    LET start == strip_tws(strip_comment(strip_lws(line0))) IN
    IF start = NUL THEN [null |-> TRUE, buff |-> oldbuff, next |-> NUL]
    ELSE
    LET line == strip_lws(skip_allowed(start, FALSE))
        c    == At(line, 1)
        \* offset of `line` and of `end` from `start`
        off  == Len(start) - Len(line)
        endoff ==
            IF c = "=" \/ c = At(LIST_BRACKET, 1) \/ c = "," THEN off
            ELSE IF is_allowed(c, FALSE) THEN off - 1
            ELSE IF c = At(LIST_BRACKET, 2)
                 THEN (IF is_allowed(At(start, 1), FALSE) THEN off - 1 ELSE off)
            ELSE Len(start) - 1
        tok  == cp_to_buff(start, buffsz, endoff + 1)
    IN  IF At(start, endoff + 1) = NUL
        THEN [null |-> TRUE, buff |-> tok, next |-> NUL]
        ELSE [null |-> FALSE, buff |-> tok, next |-> Adv(start, endoff + 1)]

(***************************************************************************)
(* List transition engine                                                  *)
(***************************************************************************)
VARIABLES
    ALLOW_GLOBAL_RECORDS,   \* bool ALLOW_GLOBAL_RECORDS
    ALLOW_EMPTY_LISTS,      \* bool ALLOW_EMPTY_LISTS
    SECTION_NS_SEP,         \* const char *SECTION_NS_SEP
    section_delim,          \* history: the delimiter Cinic_init was called with
    buff__,                 \* char *buff__: the line buffer, while it is normalized
    pc,                     \* position in Cinic_parse
    rc,                     \* value Cinic_parse returned
    key, val, section,      \* char key[], val[], section[]
    list,                   \* enum cinic_list_state list
    islast,                 \* bool islast
    ln,                     \* uint32_t ln
    curr_token_buff,        \* char curr_token_buff[]
    next_token,             \* char *next_token
    exit_error, exit_ln,    \* arguments of the cinic_exit_print() that ended the process
    stderr,                 \* what has been written to stderr
    lines,                  \* history: the raw lines read_line() has returned
    calls,                  \* history: the invocations of cb, with what cb returned
    gle,                    \* history: the last call of Cinic_get_list_error
    before,                 \* history: list state and section when each line was
                            \* read, and the length of the physical line
    calls_at_head,          \* history: Len(calls) when the last list head was accepted
    eof,                    \* read_line() has returned 0
    f,                      \* FILE *f: "none" before fopen(), "open", "closed"
    heap,                   \* the block getline() allocates for buff__: "none",
                            \* "allocated", "freed"
    parsed,                 \* history: the invocations of Cinic_parse that returned
    again,                  \* history: the invocation whose file is being parsed
                            \* again (0: the file has not been parsed before)
    err2str,                \* history: the call of Cinic_err2str made on its own
    idx,                    \* luacinic.c: static LUA_INTEGER idx of populate_lua_state
    lua,                    \* luacinic.c: the table parse_ini_config_file builds,
                            \* a function from the paths of its fields (a
                            \* sequence of keys) to what they hold
    cp                      \* the call of cp_to_buff followed statement by
                            \* statement: its arguments, the bytes of dst
                            \* and behind it, the offsets written

vars == <<ALLOW_GLOBAL_RECORDS, ALLOW_EMPTY_LISTS, SECTION_NS_SEP,
          section_delim, buff__, pc, rc, key, val, section,
          list, islast, ln, curr_token_buff, next_token, exit_error, exit_ln,
          stderr, lines, calls, gle, before, calls_at_head, eof, f, heap,
          parsed, again, err2str, idx, lua, cp>>

\* variant: a closing bracket right after a comma is let through
Cinic_get_list_error_comma(prev, next) ==
    CASE prev = NOLIST ->
            IF next = LIST_HEAD THEN CINIC_SUCCESS
            ELSE IF next = NOLIST THEN CINIC_REDUNDANT_BRACKET
            ELSE CINIC_NOLIST
      [] prev = LIST_HEAD ->
            IF next = LIST_OPEN THEN CINIC_SUCCESS
            ELSE IF next = LIST_HEAD THEN CINIC_MALFORMED_LIST
            ELSE CINIC_LIST_NOT_STARTED
      [] prev = LIST_OPEN ->
            IF next = LIST_ONGOING \/ next = LIST_LAST THEN CINIC_SUCCESS
            ELSE IF next = LIST_HEAD THEN CINIC_NESTED
            ELSE IF next = LIST_OPEN THEN CINIC_REDUNDANT_BRACKET
            ELSE IF next = NOLIST /\ ~ALLOW_EMPTY_LISTS THEN CINIC_EMPTY_LIST
            ELSE CINIC_MALFORMED_LIST
      [] prev = LIST_ONGOING ->
            IF next = LIST_ONGOING \/ next = LIST_LAST THEN CINIC_SUCCESS
            ELSE IF next = NOLIST THEN CINIC_SUCCESS
            ELSE CINIC_LIST_NOT_ENDED
      [] prev = LIST_LAST ->
            IF next = NOLIST THEN CINIC_SUCCESS
            ELSE IF next = LIST_HEAD THEN CINIC_NESTED
            ELSE IF next = LIST_OPEN THEN CINIC_MALFORMED_LIST
            ELSE CINIC_MISSING_COMMA
      [] OTHER -> CINIC_SUCCESS

\* variant: the test of ALLOW_EMPTY_LISTS is inverted
Cinic_get_list_error_flag(prev, next) ==
    CASE prev = NOLIST ->
            IF next = LIST_HEAD THEN CINIC_SUCCESS
            ELSE IF next = NOLIST THEN CINIC_REDUNDANT_BRACKET
            ELSE CINIC_NOLIST
      [] prev = LIST_HEAD ->
            IF next = LIST_OPEN THEN CINIC_SUCCESS
            ELSE IF next = LIST_HEAD THEN CINIC_MALFORMED_LIST
            ELSE CINIC_LIST_NOT_STARTED
      [] prev = LIST_OPEN ->
            IF next = LIST_ONGOING \/ next = LIST_LAST THEN CINIC_SUCCESS
            ELSE IF next = LIST_HEAD THEN CINIC_NESTED
            ELSE IF next = LIST_OPEN THEN CINIC_REDUNDANT_BRACKET
            ELSE IF next = NOLIST /\ ALLOW_EMPTY_LISTS THEN CINIC_EMPTY_LIST
            ELSE CINIC_MALFORMED_LIST
      [] prev = LIST_ONGOING ->
            IF next = LIST_ONGOING \/ next = LIST_LAST THEN CINIC_SUCCESS
            ELSE IF next = NOLIST THEN CINIC_REDUNDANT_COMMA
            ELSE CINIC_LIST_NOT_ENDED
      [] prev = LIST_LAST ->
            IF next = NOLIST THEN CINIC_SUCCESS
            ELSE IF next = LIST_HEAD THEN CINIC_NESTED
            ELSE IF next = LIST_OPEN THEN CINIC_MALFORMED_LIST
            ELSE CINIC_MISSING_COMMA
      [] OTHER -> CINIC_SUCCESS

Cinic_get_list_error(prev, next) ==
    CASE prev = NOLIST ->
            IF next = LIST_HEAD THEN CINIC_SUCCESS
            ELSE IF next = NOLIST THEN CINIC_REDUNDANT_BRACKET
            ELSE CINIC_NOLIST
      [] prev = LIST_HEAD ->
            IF next = LIST_OPEN THEN CINIC_SUCCESS
            ELSE IF next = LIST_HEAD THEN CINIC_MALFORMED_LIST
            ELSE CINIC_LIST_NOT_STARTED
      [] prev = LIST_OPEN ->
            IF next = LIST_ONGOING \/ next = LIST_LAST THEN CINIC_SUCCESS
            ELSE IF next = LIST_HEAD THEN CINIC_NESTED
            ELSE IF next = LIST_OPEN THEN CINIC_REDUNDANT_BRACKET
            ELSE IF next = NOLIST /\ ~ALLOW_EMPTY_LISTS THEN CINIC_EMPTY_LIST
            ELSE CINIC_MALFORMED_LIST
      [] prev = LIST_ONGOING ->
            IF next = LIST_ONGOING \/ next = LIST_LAST THEN CINIC_SUCCESS
            ELSE IF next = NOLIST THEN CINIC_REDUNDANT_COMMA
            ELSE CINIC_LIST_NOT_ENDED
      [] prev = LIST_LAST ->
            IF next = NOLIST THEN CINIC_SUCCESS
            ELSE IF next = LIST_HEAD THEN CINIC_NESTED
            ELSE IF next = LIST_OPEN THEN CINIC_MALFORMED_LIST
            ELSE CINIC_MISSING_COMMA
      [] OTHER -> CINIC_SUCCESS

(***************************************************************************)
(* Inputs                                                                  *)
(***************************************************************************)
\* the number of lines of the longest file read (files of short lines)
MaxLines == 4

\* the number of lines of the longest file read (files of varied lines)
MaxWide == 2

\* what the callback may return: 0 to go on, anything else to stop
CbReturns == {0, 7}

\* the text of the lines a file is made of (each is read with its newline)
Bodies ==
    { "", "# c", "[s]", "k=a",
      "k=[", "j =", "[", "a,", "b", "]",
      "k=[a,b]", "k=[]" }

\* a wider choice of lines: spacing, comments, inline lists, malformed text
WideBodies ==
    { "", " ", "# c", " ; c",
      "[s]", "[ s.t ]", "[]", "[ ]", "[s t]", "[s] x",
      "k=a", "k = a b", "k=a ; c", "k=a=b", "=a", "k=",
      "k=[", "k = [", "j =", "[", "k [",
      "a,", "a", "a ,", "a, b", "a,b,", "a b",
      "]", "b]", "b ]", "a,]",
      "k=[a,b]", "k = [ a, b ]", "j=[a]", "k=[ a , b , c ]", "k=[]", "k = [ ]",
      "k=[a,,b]", "k=[a, ,b]", "k=[a,", "k=[a b]", "k=[a,]", "k=[[a]",
      "k=[a]]", "k=[a] b", "k=[a]#]",
      "$", "a $", ",", "=" }

\* the number of lines of the longest file read (files of long lines)
MaxLong == 2

\* the text of the lines of such a file: each stands on its physical line
\* after a number of blanks that brings the line to the length wanted
LongBodies == { "", "# c", "[s]", "k=a", "j =", "k=[", "k=[a,", "k=[a" }

LongLines == { b \o "\n" : b \in LongBodies }

\* A length is kept as two halves, hi * 2^16 + lo with lo < 2^16, so that
\* lengths of 2^32 and more can be written down.
Half == 2^16

NoFill == { [hi |-> 0, lo |-> 0] }

\* the number of blanks that precede the text on a physical line (what
\* strip_lws, is_empty_line and is_comment_line skip): none; as many as take
\* the lines above to MAX_LINE_LEN characters and to one more; 2^32 - 4 and
\* 2^32 of them
Fills ==
    { [hi |-> 0, lo |-> n] :
        n \in {0, MAX_LINE_LEN - 4, MAX_LINE_LEN - 3,
               MAX_LINE_LEN - 1, MAX_LINE_LEN} }
    \cup { [hi |-> Half - 1, lo |-> Half - 4], [hi |-> Half, lo |-> 0] }

\* what getline() returns (ssize_t): the length of the physical line, fill
\* blanks and then n characters
getline(fill, n) ==
    [hi |-> fill.hi + (fill.lo + n) \div Half, lo |-> (fill.lo + n) % Half]

\* uint32_t read_line(): the ssize_t that getline() returned, as a uint32_t
read_line(fill, n) ==
    [hi |-> getline(fill, n).hi % Half, lo |-> getline(fill, n).lo]

\* x > n, for a length x and n < 2^16
Exceeds(x, n) == x.hi > 0 \/ x.lo > n

Lines == { b \o "\n" : b \in Bodies }

WideLines == { b \o "\n" : b \in WideBodies }

(***************************************************************************)
(* Cinic_parse                                                             *)
(***************************************************************************)
\* no call of cp_to_buff is being followed
NoCp == [src |-> NUL, buffsz |-> 1, null_at |-> 0, dst |-> <<>>, written |-> {}]

\* a Lua table without fields
EmptyTable == [p \in {} |-> 0]

NoErr2str == [errnum |-> CINIC_SUCCESS, made |-> FALSE, indexed |-> FALSE,
              ret |-> NUL, status |-> 0]

NoCall == [prev |-> NOLIST, next |-> NOLIST, err |-> CINIC_SUCCESS, made |-> FALSE]

Init ==
    /\ ALLOW_GLOBAL_RECORDS \in BOOLEAN      \* Cinic_init(allow_globals, ...)
    /\ ALLOW_EMPTY_LISTS \in BOOLEAN         \* Cinic_init(..., allow_empty_lists, ...)
    /\ SECTION_NS_SEP = "."                  \* Cinic_init(..., ".")
    /\ section_delim = "."
    /\ buff__ = NUL
    /\ pc = "loop"
    /\ rc = 0
    /\ key = NUL /\ val = NUL /\ section = NUL
    /\ list = NOLIST
    /\ islast = FALSE
    /\ ln = 0
    /\ curr_token_buff = NUL
    /\ next_token = NUL
    /\ exit_error = CINIC_SUCCESS /\ exit_ln = 0
    /\ stderr = NUL
    /\ lines = <<>>
    /\ calls = <<>>
    /\ gle = NoCall
    /\ before = <<>>
    /\ calls_at_head = 0
    /\ eof = FALSE
    /\ f = "open"
    /\ heap = "none"
    /\ parsed = <<>>
    /\ again = 0
    /\ err2str = NoErr2str
    /\ idx = 1
    /\ lua = EmptyTable
    /\ cp = NoCp

\* variant: the line is counted from 0
cinic_exit_print_zero(error, l) ==
    /\ pc' = "exited"
    /\ exit_error' = error
    /\ exit_ln' = l - 1
    /\ stderr' = stderr \o "Cinic: failed to parse line " \o ToString(l - 1)
                        \o " -- " \o Cinic_err2str(error) \o "\n"

\* cinic_exit_print(error, l): the message is printed and the process exits
\* (every call passes an error kind that satisfies the assert)
cinic_exit_print(error, l) ==
    /\ pc' = "exited"
    /\ exit_error' = error
    /\ exit_ln' = l
    /\ stderr' = stderr \o "Cinic: failed to parse line " \o ToString(l)
                        \o " -- " \o Cinic_err2str(error) \o "\n"

\* variant: the callback is given the line number counted from 0
cb_zero(l, lst, sec, k, v, ret) ==
    calls' = Append(calls, [ln |-> l - 1, list |-> lst, section |-> sec,
                            k |-> k, v |-> v, ret |-> ret])

\* rc = cb(l, lst, sec, k, v); the callback returns ret
cb(l, lst, sec, k, v, ret) ==
    calls' = Append(calls, [ln |-> l, list |-> lst, section |-> sec,
                            k |-> k, v |-> v, ret |-> ret])

\* variant: what the callback returns is not looked at
after_cb_ignored(ret, cont) == cont

\* `if ( (rc = cb(...)) ) return rc;` : where Cinic_parse is after the callback
\* returned ret, cont being the loop it is in
after_cb(ret, cont) == IF ret # 0 THEN "returned" ELSE cont

\* variant: ALLOW_GLOBAL_RECORDS is not looked at
record_error_noflag(sec, lst) ==
    IF sec = NUL THEN CINIC_NOSECTION
    ELSE IF lst # NOLIST THEN CINIC_NESTED
    ELSE CINIC_SUCCESS

\* variant: the list state is not looked at
record_error_nolist(sec, lst) ==
    IF sec = NUL /\ ~ALLOW_GLOBAL_RECORDS THEN CINIC_NOSECTION
    ELSE CINIC_SUCCESS

\* the error a record line raises, given the section and list state it is read
\* in (CINIC_SUCCESS: none, the callback is invoked)
record_error(sec, lst) ==
    IF sec = NUL /\ ~ALLOW_GLOBAL_RECORDS THEN CINIC_NOSECTION
    ELSE IF lst # NOLIST THEN CINIC_NESTED
    ELSE CINIC_SUCCESS

\* variant: the list head branch does not `continue`
token_continues_nohead(nxt) == nxt \in {LIST_OPEN, NOLIST}

\* the branches of the token loop that end with `continue`, by the list state
\* they set: list head, opening bracket, closing bracket; the others (a list
\* entry) go on to the callback
token_continues(nxt) == nxt \in {LIST_HEAD, LIST_OPEN, NOLIST}

\* read_line() returns 0: the loop ends, Cinic_parse returns 0
ReadEOF ==
    /\ pc = "loop"
    /\ pc' = "returned"
    /\ rc' = 0
    /\ eof' = TRUE
    /\ f' = "closed"                         \* fclose(f);
    /\ heap' = "freed"                       \* free(buff__);
    /\ UNCHANGED <<ALLOW_GLOBAL_RECORDS, ALLOW_EMPTY_LISTS, SECTION_NS_SEP,
                   section_delim, buff__, key, val, section,
                   list, islast, ln, curr_token_buff, next_token, exit_error,
                   exit_ln, stderr, lines, calls, gle, before, calls_at_head,
                   parsed, again, err2str, idx, lua, cp>>

\* one iteration of the loop over the lines, up to the token loop; the file
\* has at most max lines, each with a text from the set L after a number of
\* blanks from the set F
ReadLineFrom(L, F, max) ==
    /\ pc = "loop"
    /\ ln < max
    /\ \E raw \in L, fill \in F :
        LET bytes_read == read_line(fill, Len(raw))
            buff == normalize(raw)
            sec  == is_section_line(buff, MAX_LINE_LEN)
            rec  == is_record_line(buff, MAX_LINE_LEN)
        IN
        IF bytes_read.hi = 0 /\ bytes_read.lo = 0 THEN
            \* read_line() returns 0 as it does at the end of the file
            /\ pc' = "returned"
            /\ rc' = 0
            /\ eof' = TRUE
            /\ f' = "closed"
            /\ heap' = "freed"
            /\ UNCHANGED <<ALLOW_GLOBAL_RECORDS, ALLOW_EMPTY_LISTS, SECTION_NS_SEP,
                           section_delim, buff__, key, val,
                           section, list, islast, ln, curr_token_buff,
                           next_token, exit_error, exit_ln, stderr, lines,
                           calls, gle, before, calls_at_head, parsed, again, err2str, idx, lua, cp>>
        ELSE
        /\ ln' = ln + 1
        /\ lines' = Append(lines, raw)
        /\ before' = Append(before, [list |-> list, section |-> section,
                                     len |-> getline(fill, Len(raw))])
        /\ heap' = "allocated"
        /\ UNCHANGED <<ALLOW_GLOBAL_RECORDS, ALLOW_EMPTY_LISTS, SECTION_NS_SEP,
                       section_delim, buff__, list, islast,
                       curr_token_buff, gle, calls_at_head, eof, f, parsed,
                       again, err2str, idx, lua, cp>>
        /\ IF Exceeds(bytes_read, MAX_LINE_LEN) THEN
                /\ cinic_exit_print(CINIC_TOOLONG, ln + 1)
                /\ UNCHANGED <<rc, key, val, section, next_token, calls>>
           ELSE IF is_empty_line(raw) \/ is_comment_line(raw) THEN
                UNCHANGED <<pc, rc, key, val, section, next_token, calls,
                            exit_error, exit_ln, stderr>>
           ELSE IF sec.ok THEN
                /\ section' = sec.name
                /\ IF list # NOLIST
                   THEN cinic_exit_print(CINIC_NESTED, ln + 1)
                   ELSE UNCHANGED <<pc, exit_error, exit_ln, stderr>>
                /\ UNCHANGED <<rc, key, val, next_token, calls>>
           ELSE IF rec.ok THEN
                /\ key' = rec.k
                /\ val' = rec.v
                /\ UNCHANGED <<section, next_token>>
                /\ IF record_error(section, list) # CINIC_SUCCESS THEN
                        /\ cinic_exit_print(record_error(section, list), ln + 1)
                        /\ UNCHANGED <<rc, calls>>
                   ELSE \E ret \in CbReturns :
                        /\ cb(ln + 1, list, section, rec.k, rec.v, ret)
                        /\ rc' = ret
                        /\ pc' = after_cb(ret, "loop")
                        /\ UNCHANGED <<exit_error, exit_ln, stderr>>
           ELSE
                /\ pc' = "tokens"
                /\ next_token' = buff
                /\ UNCHANGED <<rc, key, val, section, calls, exit_error, exit_ln, stderr>>

\* one iteration of the loop over the tokens of a line
ListToken ==
    /\ pc = "tokens"
    /\  LET t     == get_list_token(next_token, curr_token_buff, MAX_LINE_LEN)
            tok   == t.buff
            head  == is_list_head(tok, MAX_LINE_LEN)
            entry == is_list_entry(tok, MAX_LINE_LEN)
            nxt   == IF head.ok THEN LIST_HEAD
                     ELSE IF is_list_start(tok) THEN LIST_OPEN
                     ELSE IF entry.ok
                          THEN (IF entry.islast THEN LIST_LAST ELSE LIST_ONGOING)
                     ELSE NOLIST
            cerr  == Cinic_get_list_error(list, nxt)
        IN
        /\ UNCHANGED <<ALLOW_GLOBAL_RECORDS, ALLOW_EMPTY_LISTS, SECTION_NS_SEP,
                       section_delim, buff__, section, ln,
                       lines, before, eof, f, heap, parsed, again, err2str, idx, lua, cp>>
        /\ calls_at_head' = IF ~t.null /\ head.ok /\ cerr = CINIC_SUCCESS
                            THEN Len(calls) ELSE calls_at_head
        /\ IF t.null THEN
                \* no token left: back to the loop over the lines
                /\ pc' = "loop"
                /\ curr_token_buff' = NUL
                /\ next_token' = NUL
                /\ UNCHANGED <<rc, key, val, list, islast, exit_error, exit_ln, stderr,
                               calls, gle>>
           ELSE
                /\ curr_token_buff' = tok
                /\ next_token' = t.next
                /\ key' = IF head.ok THEN head.k ELSE key
                /\ val' = IF ~head.ok /\ ~is_list_start(tok) /\ entry.ok
                          THEN entry.v ELSE val
                /\ IF ~head.ok /\ ~is_list_start(tok) /\ entry.ok /\ entry.assert_fails
                   THEN \* assert(! *line) in is_list_entry
                        /\ pc' = "aborted"
                        /\ UNCHANGED <<rc, list, islast, exit_error, exit_ln, stderr,
                                       calls, gle>>
                   ELSE IF ~head.ok /\ ~is_list_start(tok) /\ ~entry.ok
                           /\ ~is_list_end(tok)
                   THEN /\ cinic_exit_print(CINIC_MALFORMED, ln)
                        /\ UNCHANGED <<rc, list, islast, calls, gle>>
                   ELSE /\ gle' = [prev |-> list, next |-> nxt, err |-> cerr,
                                   made |-> TRUE]
                        /\ IF cerr # CINIC_SUCCESS THEN
                                /\ cinic_exit_print(cerr, ln)
                                /\ islast' = IF ~head.ok /\ ~is_list_start(tok) /\ entry.ok
                                             THEN entry.islast ELSE islast
                                /\ UNCHANGED <<rc, list, calls>>
                           ELSE /\ list' = nxt
                                /\ islast' = IF head.ok THEN FALSE
                                             ELSE IF ~is_list_start(tok) /\ entry.ok
                                             THEN entry.islast ELSE islast
                                /\ IF ~token_continues(nxt) THEN
                                      \E ret \in CbReturns :
                                        /\ cb(ln, nxt, section, key, entry.v, ret)
                                        /\ rc' = ret
                                        /\ pc' = after_cb(ret, "tokens")
                                        /\ UNCHANGED <<exit_error, exit_ln, stderr>>
                                   ELSE UNCHANGED <<pc, rc, calls, exit_error, exit_ln, stderr>>

\* the delimiters Cinic_init is called with: of 0, 1, 2 and 3 characters; of
\* those of one character, "." and "/" are characters is_allowed() accepts
\* and ":" is not
Delims == { "", ".", "/", ":", "::", "a.b" }

\* the number of lines of the longest file read after Cinic_init
MaxInit == 1

\* the process before Cinic_init is called: the globals have their
\* initializers and nothing has been parsed
InitStart ==
    /\ ALLOW_GLOBAL_RECORDS = FALSE
    /\ ALLOW_EMPTY_LISTS = FALSE
    /\ SECTION_NS_SEP = "."
    /\ section_delim = NUL
    /\ buff__ = NUL
    /\ pc = "start"
    /\ rc = 0
    /\ key = NUL /\ val = NUL /\ section = NUL
    /\ list = NOLIST
    /\ islast = FALSE
    /\ ln = 0
    /\ curr_token_buff = NUL
    /\ next_token = NUL
    /\ exit_error = CINIC_SUCCESS /\ exit_ln = 0
    /\ stderr = NUL
    /\ lines = <<>>
    /\ calls = <<>>
    /\ gle = NoCall
    /\ before = <<>>
    /\ calls_at_head = 0
    /\ eof = FALSE
    /\ f = "none"
    /\ heap = "none"
    /\ parsed = <<>>
    /\ again = 0
    /\ err2str = NoErr2str
    /\ idx = 1
    /\ lua = EmptyTable
    /\ cp = NoCp

\* Cinic_init(allow_globals, allow_empty_lists, section_delim), after which
\* Cinic_parse is called; pc = "init_exited": Cinic_init called exit()
Cinic_init ==
    /\ pc = "start"
    /\ \E allow_globals \in BOOLEAN, allow_empty_lists \in BOOLEAN, delim \in Delims :
        /\ ALLOW_GLOBAL_RECORDS' = allow_globals
        /\ ALLOW_EMPTY_LISTS' = allow_empty_lists
        /\ section_delim' = delim
        /\ IF Len(delim) > 1 THEN
                /\ stderr' = stderr \o "Invalid section delimiter specified: '"
                                    \o delim \o "' -- must be a single char\n"
                /\ pc' = "init_exited"
                /\ UNCHANGED <<SECTION_NS_SEP, f>>
           ELSE /\ SECTION_NS_SEP' = delim
                /\ pc' = "loop"
                /\ f' = "open"               \* Cinic_parse: fopen(path, "r")
                /\ UNCHANGED stderr
        /\ UNCHANGED <<buff__, rc, key, val, section, list, islast, ln,
                       curr_token_buff, next_token, exit_error, exit_ln, lines,
                       calls, gle, before, calls_at_head, eof, heap, parsed,
                       again, err2str, idx, lua, cp>>

\* the length of the longest text normalized, and of the longest text
\* classified
MaxText == 4

MaxSect == 6

\* the strings of at most n characters of the set A
RECURSIVE Strings(_, _)
Strings(A, n) ==
    IF n = 0 THEN {NUL}
    ELSE LET T == Strings(A, n - 1) IN T \cup { t \o c : t \in T, c \in A }

\* the lines getline() may return: whitespace, comment signs and text, with a
\* newline or (last line of the file) without; and lines of brackets, text,
\* whitespace and a character that is not allowed
TextLines ==
    ({ b \o e : b \in Strings({" ", "\t", "#", ";", "a"}, MaxText),
                e \in {NUL, "\n"} } \ {NUL})
    \cup { b \o "\n" : b \in Strings({"[", "]", " ", "a", "b", "$"}, MaxSect) }

\* the first line of a file is in the buffer and is about to be normalized
InitText ==
    /\ ALLOW_GLOBAL_RECORDS = FALSE
    /\ ALLOW_EMPTY_LISTS = FALSE
    /\ SECTION_NS_SEP = "."
    /\ section_delim = "."
    /\ buff__ \in TextLines
    /\ pc = "strip_lws"
    /\ rc = 0
    /\ key = NUL /\ val = NUL /\ section = NUL
    /\ list = NOLIST
    /\ islast = FALSE
    /\ ln = 1
    /\ curr_token_buff = NUL
    /\ next_token = NUL
    /\ exit_error = CINIC_SUCCESS /\ exit_ln = 0
    /\ stderr = NUL
    /\ lines = <<buff__>>
    /\ calls = <<>>
    /\ gle = NoCall
    /\ before = << [list |-> NOLIST, section |-> NUL,
                    len |-> [hi |-> 0, lo |-> Len(buff__)]] >>
    /\ calls_at_head = 0
    /\ eof = FALSE
    /\ f = "open"
    /\ heap = "allocated"
    /\ parsed = <<>>
    /\ again = 0
    /\ err2str = NoErr2str
    /\ idx = 1
    /\ lua = EmptyTable
    /\ cp = NoCp

\* what the steps on the buffer leave alone
TextFrame ==
    UNCHANGED <<ALLOW_GLOBAL_RECORDS, ALLOW_EMPTY_LISTS, SECTION_NS_SEP,
                section_delim, rc, key, val, list, islast, ln, curr_token_buff,
                next_token, exit_error, exit_ln, stderr, lines, calls, gle,
                before, calls_at_head, eof, f, heap, parsed, again, err2str, idx, lua, cp>>

\* buff = strip_lws(buff);
StripLws ==
    /\ pc = "strip_lws"
    /\ buff__' = strip_lws(buff__)
    /\ pc' = "strip_comment"
    /\ UNCHANGED section
    /\ TextFrame

\* strip_comment(buff);
StripComment ==
    /\ pc = "strip_comment"
    /\ buff__' = strip_comment(buff__)
    /\ pc' = "strip_tws"
    /\ UNCHANGED section
    /\ TextFrame

\* strip_tws(buff);
StripTws ==
    /\ pc = "strip_tws"
    /\ buff__' = strip_tws(buff__)
    /\ pc' = "normalized"
    /\ UNCHANGED section
    /\ TextFrame

\* if (is_section_line(buff, section, MAX_LINE_LEN))
SectionLine ==
    /\ pc = "normalized"
    /\ LET sec == is_section_line(buff__, MAX_LINE_LEN) IN
        /\ section' = IF sec.ok THEN sec.name ELSE section
        /\ pc' = IF sec.ok THEN "section" ELSE "not_section"
    /\ UNCHANGED buff__
    /\ TextFrame

\* the length of the longest string given to is_record_line, and to
\* is_list_head and is_list_entry
MaxRec == 5

MaxTok == 5

\* the strings the classifiers are called with: keys and values with
\* whitespace, '=' and a character that is not allowed; names with whitespace,
\* commas, '=' and the opening bracket
ClassTexts ==
    Strings({"k", "v", " ", "=", "$"}, MaxRec)
    \cup Strings({"a", "b", " ", ",", "=", "["}, MaxTok)

\* a classifier is about to be called with the string in the buffer, its
\* output buffers zeroed
InitClass ==
    /\ ALLOW_GLOBAL_RECORDS = FALSE
    /\ ALLOW_EMPTY_LISTS = FALSE
    /\ SECTION_NS_SEP = "."
    /\ section_delim = "."
    /\ buff__ \in ClassTexts
    /\ pc = "classify"
    /\ rc = 0
    /\ key = NUL /\ val = NUL /\ section = NUL
    /\ list = NOLIST
    /\ islast = FALSE
    /\ ln = 1
    /\ curr_token_buff = NUL
    /\ next_token = NUL
    /\ exit_error = CINIC_SUCCESS /\ exit_ln = 0
    /\ stderr = NUL
    /\ lines = <<buff__>>
    /\ calls = <<>>
    /\ gle = NoCall
    /\ before = << [list |-> NOLIST, section |-> NUL,
                    len |-> [hi |-> 0, lo |-> Len(buff__)]] >>
    /\ calls_at_head = 0
    /\ eof = FALSE
    /\ f = "none"
    /\ heap = "none"
    /\ parsed = <<>>
    /\ again = 0
    /\ err2str = NoErr2str
    /\ idx = 1
    /\ lua = EmptyTable
    /\ cp = NoCp

\* what a call of a classifier leaves alone
ClassFrame ==
    UNCHANGED <<ALLOW_GLOBAL_RECORDS, ALLOW_EMPTY_LISTS, SECTION_NS_SEP,
                section_delim, buff__, rc, section, list, ln, curr_token_buff,
                next_token, exit_error, exit_ln, stderr, lines, calls, gle,
                before, calls_at_head, eof, f, heap, parsed, again, err2str, idx, lua, cp>>

\* is_record_line(buff, key, val, MAX_LINE_LEN)
RecordLine ==
    /\ pc = "classify"
    /\ LET rec == is_record_line(buff__, MAX_LINE_LEN) IN
        /\ key' = IF rec.ok THEN rec.k ELSE key
        /\ val' = IF rec.ok THEN rec.v ELSE val
        /\ pc' = IF rec.ok THEN "record" ELSE "not_record"
    /\ UNCHANGED islast
    /\ ClassFrame

\* is_list_head(curr_token_buff, key, MAX_LINE_LEN)
ListHead ==
    /\ pc = "classify"
    /\ LET head == is_list_head(buff__, MAX_LINE_LEN) IN
        /\ key' = IF head.ok THEN head.k ELSE key
        /\ pc' = IF head.ok THEN "head" ELSE "not_head"
    /\ UNCHANGED <<val, islast>>
    /\ ClassFrame

\* is_list_entry(curr_token_buff, val, MAX_LINE_LEN, &islast); the assert in it
\* is compiled in, or (NDEBUG) is not
ListEntry ==
    /\ pc = "classify"
    /\ \E NDEBUG \in BOOLEAN :
        LET entry == is_list_entry(buff__, MAX_LINE_LEN) IN
        IF entry.ok /\ entry.assert_fails /\ ~NDEBUG
        THEN /\ pc' = "aborted"
             /\ UNCHANGED <<val, islast>>
        ELSE /\ val' = IF entry.ok THEN entry.v ELSE val
             /\ islast' = IF entry.ok THEN entry.islast ELSE islast
             /\ pc' = IF entry.ok THEN "entry" ELSE "not_entry"
    /\ UNCHANGED key
    /\ ClassFrame

\* the number of invocations of Cinic_parse in a process, and the number of
\* lines of the longest file they read
MaxParses == 3

MaxAgain == 2

\* the text of the lines of those files: a section, a record, a list that is
\* left open, a last entry
AgainBodies == { "[s]", "k=a", "k=[a,", "b" }

AgainLines == { b \o "\n" : b \in AgainBodies }

\* variant: list and section are kept from one invocation to the next, as
\* objects of static storage duration are
Cinic_parse_static ==
    /\ pc = "returned"
    /\ Len(parsed) + 1 < MaxParses
    /\ parsed' = Append(parsed, [lines |-> lines, calls |-> calls, rc |-> rc,
                                 eof |-> eof, f |-> f, heap |-> heap])
    /\ again' \in 0..(Len(parsed) + 1)
    /\ rc' = 0
    /\ key' = NUL /\ val' = NUL
    /\ islast' = FALSE
    /\ ln' = 0
    /\ heap' = "none"
    /\ f' = "open"
    /\ pc' = "loop"
    /\ curr_token_buff' = NUL /\ next_token' = NUL
    /\ lines' = <<>> /\ calls' = <<>> /\ before' = <<>>
    /\ gle' = NoCall /\ calls_at_head' = 0 /\ eof' = FALSE
    /\ UNCHANGED <<ALLOW_GLOBAL_RECORDS, ALLOW_EMPTY_LISTS, SECTION_NS_SEP,
                   section_delim, buff__, exit_error, exit_ln, stderr,
                   list, section, err2str, idx, lua, cp>>

\* Cinic_parse is called once more, after an invocation that returned: its
\* objects are those of a new invocation, with their initializers, and the
\* file is one parsed before (again' > 0) or another one
Cinic_parse ==
    /\ pc = "returned"
    /\ Len(parsed) + 1 < MaxParses
    /\ parsed' = Append(parsed, [lines |-> lines, calls |-> calls, rc |-> rc,
                                 eof |-> eof, f |-> f, heap |-> heap])
    /\ again' \in 0..(Len(parsed) + 1)
    /\ rc' = 0                               \* int rc = 0;
    /\ key' = NUL /\ val' = NUL /\ section' = NUL     \* char key[] = {0}; ...
    /\ list' = NOLIST                        \* enum cinic_list_state list = NOLIST;
    /\ islast' = FALSE                       \* bool islast = false;
    /\ ln' = 0                               \* uint32_t ln = 0;
    /\ heap' = "none"                        \* char *buff__ = NULL;
    /\ f' = "open"                           \* FILE *f = fopen(path, "r");
    /\ pc' = "loop"
    /\ curr_token_buff' = NUL /\ next_token' = NUL
    /\ lines' = <<>> /\ calls' = <<>> /\ before' = <<>>
    /\ gle' = NoCall /\ calls_at_head' = 0 /\ eof' = FALSE
    /\ UNCHANGED <<ALLOW_GLOBAL_RECORDS, ALLOW_EMPTY_LISTS, SECTION_NS_SEP,
                   section_delim, buff__, exit_error, exit_ln, stderr,
                   err2str, idx, lua, cp>>

\* the lines of the file being parsed that were read when it was parsed
\* before, and whether it was read to its end
FileLines == IF again = 0 THEN <<>> ELSE parsed[again].lines

FileEnded == again # 0 /\ parsed[again].eof

\* what read_line() may return next: the line read at this place before;
\* past the lines read before, any line, unless the file ended there
NextLines ==
    IF ln < Len(FileLines) THEN { FileLines[ln + 1] }
    ELSE IF FileEnded THEN {}
    ELSE AgainLines

ReadAgainLine == ReadLineFrom(NextLines, NoFill, MaxAgain)

\* the file ends where it ended before
ReadAgainEOF == ln >= Len(FileLines) /\ ReadEOF

\* the greatest number Cinic_err2str is called with
MaxErrnum == 63

\* Cinic_err2str is about to be called with a number errnum
InitErr ==
    /\ ALLOW_GLOBAL_RECORDS = FALSE
    /\ ALLOW_EMPTY_LISTS = FALSE
    /\ SECTION_NS_SEP = "."
    /\ section_delim = "."
    /\ buff__ = NUL
    /\ pc = "err2str"
    /\ rc = 0
    /\ key = NUL /\ val = NUL /\ section = NUL
    /\ list = NOLIST
    /\ islast = FALSE
    /\ ln = 0
    /\ curr_token_buff = NUL
    /\ next_token = NUL
    /\ exit_error = CINIC_SUCCESS /\ exit_ln = 0
    /\ stderr = NUL
    /\ lines = <<>>
    /\ calls = <<>>
    /\ gle = NoCall
    /\ before = <<>>
    /\ calls_at_head = 0
    /\ eof = FALSE
    /\ f = "none"
    /\ heap = "none"
    /\ parsed = <<>>
    /\ again = 0
    /\ err2str \in { [NoErr2str EXCEPT !.errnum = n] : n \in 0..MaxErrnum }
    /\ idx = 1
    /\ lua = EmptyTable
    /\ cp = NoCp

\* what a call of Cinic_err2str leaves alone
ErrFrame ==
    UNCHANGED <<ALLOW_GLOBAL_RECORDS, ALLOW_EMPTY_LISTS, SECTION_NS_SEP,
                section_delim, buff__, rc, key, val, section, list, islast, ln,
                curr_token_buff, next_token, exit_error, exit_ln, lines, calls,
                gle, before, calls_at_head, eof, f, heap, parsed, again, idx, lua, cp>>

\* variant: the process exits with EXIT_FAILURE
Err2str_failure ==
    /\ pc = "err2str"
    /\ IF err2str.errnum >= CINIC_SENTINEL THEN
            /\ stderr' = stderr \o "Invalid cinic error number: '"
                                \o ToString(err2str.errnum) \o "'\n"
            /\ err2str' = [err2str EXCEPT !.made = TRUE, !.status = 1]
            /\ pc' = "err2str_exited"
       ELSE /\ err2str' = [err2str EXCEPT !.made = TRUE, !.indexed = TRUE,
                                !.ret = cinic_error_strings[err2str.errnum]]
            /\ pc' = "err2str_returned"
            /\ UNCHANGED stderr
    /\ ErrFrame

\* Cinic_err2str(errnum), called on its own: exit(13) for a number that is
\* not below CINIC_SENTINEL, else cinic_error_strings[errnum] is returned
Err2str ==
    /\ pc = "err2str"
    /\ IF err2str.errnum >= CINIC_SENTINEL THEN
            /\ stderr' = stderr \o "Invalid cinic error number: '"
                                \o ToString(err2str.errnum) \o "'\n"
            /\ err2str' = [err2str EXCEPT !.made = TRUE, !.status = 13]
            /\ pc' = "err2str_exited"
       ELSE /\ err2str' = [err2str EXCEPT !.made = TRUE, !.indexed = TRUE,
                                !.ret = cinic_error_strings[err2str.errnum]]
            /\ pc' = "err2str_returned"
            /\ UNCHANGED stderr
    /\ ErrFrame

\* the number of lines of the longest file read (files of several sections)
MaxSections == 4

\* the text of the lines of such a file: two section headers, a line in
\* brackets that is none, a comment, a record, and the lines of a list
SectBodies == { "[s]", "[ t ]", "[s t]", "# c", "k=a", "k=[a,", "b", "]" }

SectLines == { b \o "\n" : b \in SectBodies }

ReadSectLine == ReadLineFrom(SectLines, NoFill, MaxSections)

\* the number of lines of the longest file read after Cinic_init, when its
\* section headers are written with the delimiter
MaxDelim == 3

\* section names that contain the delimiter d once and twice
DelimNames(d) == { "a" \o d \o "b", "a" \o d \o "b" \o d \o "c" }

\* the lines of such a file: headers with these names, a header without the
\* delimiter, a record and a list; the headers are written with the delimiter
\* Cinic_init has installed
DelimLines ==
    { "[" \o n \o "]\n" : n \in DelimNames(SECTION_NS_SEP) }
        \cup { "[s]\n", "k=a\n", "k=[a]\n" }

ReadDelimLine == ReadLineFrom(DelimLines, NoFill, MaxDelim)

\* the number of lines of the longest file read, when the file is a list
\* spread over lines
MaxSplit == 7

\* the lists such a file holds: a key and one, two or three entries
SplitLists ==
    { [k |-> "k", es |-> <<"a">>], [k |-> "j", es |-> <<"a", "b">>],
      [k |-> "k", es |-> <<"a", "b", "c">>] }

\* the tokens of a list, as get_list_token cuts them: the head `key =`, the
\* opening bracket, the entries (each but the last with its comma), the
\* closing bracket
TokensOf(L) ==
    <<L.k \o " =", "[">>
        \o [i \in 1..Len(L.es) |->
                L.es[i] \o (IF i < Len(L.es) THEN "," ELSE NUL)]
        \o <<"]">>

\* the ways of laying the tokens T out: between two tokens stands nothing, a
\* blank, or the end of the line
RECURSIVE SplitsOf(_)
SplitsOf(T) ==
    IF Len(T) = 1 THEN { <<T[1]>> }
    ELSE LET R == SplitsOf(Tail(T)) IN
         { <<T[1]>> \o r : r \in R }
            \cup { <<T[1] \o " " \o r[1]>> \o Tail(r) : r \in R }
            \cup { <<T[1] \o r[1]>> \o Tail(r) : r \in R }

\* the files that hold the list L: a section header, then the tokens of L
FilesOf(L) ==
    { <<"[s]\n">> \o [i \in 1..Len(F) |-> F[i] \o "\n"] :
        F \in SplitsOf(TokensOf(L)) }

SplitFiles == UNION { FilesOf(L) : L \in SplitLists }

\* what read_line() may return next: the next line of a file that starts
\* with the lines read
SplitLines ==
    { F[ln + 1] : F \in { G \in SplitFiles :
                            /\ Len(G) > ln
                            /\ SubSeq(G, 1, ln) = lines } }

ReadSplitLine == ReadLineFrom(SplitLines, NoFill, MaxSplit)

\* the file ends after its last token
ReadSplitEOF == lines \in SplitFiles /\ ReadEOF

\* the number of characters, after an opening `a=[` if there is one, of the
\* longest line given to the token loop, and the number of lines of the file
MaxTokChars == 4

MaxTokLines == 1

\* the lines of such a file: every text of that length made of an allowed
\* character, whitespace, the comma, the equals sign, the brackets and a
\* character that is none of these, alone and after the start of a list
TokLines ==
    { pre \o t \o "\n" :
        pre \in {NUL, "a=["},
        t \in Strings({"a", " ", ",", "=", "[", "]", "$"}, MaxTokChars) }

ReadTokLine == ReadLineFrom(TokLines, NoFill, MaxTokLines)

\* the number of lines of the longest file read, when its lines are as long as
\* a line may be
MaxFull == 2

\* n times the character c
RECURSIVE Rep(_, _)
Rep(c, n) ==
    IF n <= 0 THEN NUL
    ELSE LET h == Rep(c, n \div 2) IN h \o h \o (IF n % 2 = 1 THEN c ELSE NUL)

\* a word of n allowed characters, the last unlike the others
Word(n) == Rep("a", n - 1) \o "b"

\* the texts of n characters such a line holds: a section header, a record
\* with a long value and one with a long key, a list entry without and with
\* its comma
FullTexts(n) ==
    { "[" \o Word(n - 2) \o "]", "k=" \o Word(n - 2), Word(n - 2) \o "=v",
      Word(n), Word(n - 1) \o "," }

\* the lines of such a file: short ones, and lines that getline() returns with
\* MAX_LINE_LEN - 1, MAX_LINE_LEN and MAX_LINE_LEN + 1 characters, the newline
\* counted if there is one (the last line of a file may lack it)
FullLines ==
    { "[s]\n", "k=[\n", "k=v\n" }
        \cup UNION { { t \o e : t \in FullTexts(n - Len(e)) } :
                        n \in (MAX_LINE_LEN - 1)..(MAX_LINE_LEN + 1),
                        e \in {"\n", NUL} }

\* a line without newline is the last of its file
ReadFullLine ==
    /\ IF lines = <<>> THEN TRUE
       ELSE At(lines[Len(lines)], Len(lines[Len(lines)])) = "\n"
    /\ ReadLineFrom(FullLines, NoFill, MaxFull)

(***************************************************************************)
(* The Lua binding (luacinic.c)                                            *)
(***************************************************************************)
\* the keys of a Lua table: a string (i = 0) or an integer (i > 0)
StrKey(s) == [s |-> s, i |-> 0]

IntKey(n) == [s |-> NUL, i |-> n]

\* what a field holds: a string (lua_pushstring), or a table (lua_newtable);
\* a table is an object of its own, told from every other one by id: the
\* call of populate_lua_state that created it and the depth it was created at
StringNode(v) == [table |-> FALSE, v |-> v, id |-> <<0, 0>>]

TableNode(n, depth) == [table |-> TRUE, v |-> NUL, id |-> <<n, depth>>]

\* p is the path of q or of a table q lies in
Under(p, q) == Len(p) <= Len(q) /\ SubSeq(q, 1, Len(p)) = p

\* lua_setfield / lua_settable: the field at path p is assigned; what it held
\* (a table with its fields) is no longer in T
SetField(T, p, node) ==
    [q \in { r \in DOMAIN T : ~Under(p, r) } \cup {p} |->
        IF q = p THEN node ELSE T[q]]

\* lua_getfield(L, -1, k) == LUA_TTABLE, for the field at path p
IsTable(T, p) == IF p \in DOMAIN T THEN T[p].table ELSE FALSE

\* get_or_create(L, k), p being the path of t[k]: t[k] is kept if it is a
\* table and is assigned a new table otherwise
get_or_create(T, p, n) ==
    IF IsTable(T, p) THEN T ELSE SetField(T, p, TableNode(n, Len(p)))

RECURSIVE strtok(_, _, _)
\* the tokens that successive calls of strtok(s, delim) return, cur being the
\* token collected so far: s is cut at every character of delim and no token
\* is empty
strtok(s, delim, cur) ==
    IF s = NUL THEN (IF cur = NUL THEN <<>> ELSE <<cur>>)
    ELSE IF \E i \in 1..Len(delim) : At(delim, i) = At(s, 1)
    THEN (IF cur = NUL THEN <<>> ELSE <<cur>>) \o strtok(Adv(s, 1), delim, NUL)
    ELSE strtok(Adv(s, 1), delim, cur \o At(s, 1))

\* the path of the table of a section: one key for each token of its title
SectionPath(sec) ==
    LET q == strtok(sec, SECTION_NS_SEP, NUL) IN
    [i \in 1..Len(q) |-> StrKey(q[i])]

RECURSIVE Nested(_, _, _, _)
\* `while (s){ get_or_create(L, s); s = strtok(NULL, SECTION_NS_SEP); }` from
\* the component at depth d on
Nested(T, path, d, n) ==
    IF d > Len(path) THEN T
    ELSE Nested(get_or_create(T, SubSeq(path, 1, d), n), path, d + 1, n)

\* variant: idx is not set to 1 at a list head
populate_lua_state_noreset(T, ix, n, lst, sec, k, v) ==
    LET path == SectionPath(sec)
        T1   == Nested(T, path, 1, n)
        at   == Append(path, StrKey(k))
    IN
    IF lst = NOLIST THEN
        [lua |-> SetField(T1, at, StringNode(v)), idx |-> ix, error |-> FALSE]
    ELSE IF lst = LIST_HEAD THEN
        [lua |-> SetField(T1, at, TableNode(n, Len(at))), idx |-> ix, error |-> FALSE]
    ELSE IF lst \in {LIST_ONGOING, LIST_LAST} THEN
        IF ~IsTable(T1, at) THEN [lua |-> T1, idx |-> ix, error |-> TRUE]
        ELSE [lua |-> SetField(T1, Append(at, IntKey(ix)), StringNode(v)),
              idx |-> ix + 1, error |-> FALSE]
    ELSE [lua |-> T1, idx |-> ix, error |-> TRUE]

\* variant: idx is incremented before the entry is stored
populate_lua_state_early(T, ix, n, lst, sec, k, v) ==
    LET path == SectionPath(sec)
        T1   == Nested(T, path, 1, n)
        at   == Append(path, StrKey(k))
    IN
    IF lst = NOLIST THEN
        [lua |-> SetField(T1, at, StringNode(v)), idx |-> ix, error |-> FALSE]
    ELSE IF lst = LIST_HEAD THEN
        [lua |-> SetField(T1, at, TableNode(n, Len(at))), idx |-> 1, error |-> FALSE]
    ELSE IF lst \in {LIST_ONGOING, LIST_LAST} THEN
        IF ~IsTable(T1, at) THEN [lua |-> T1, idx |-> ix, error |-> TRUE]
        ELSE [lua |-> SetField(T1, Append(at, IntKey(ix + 1)), StringNode(v)),
              idx |-> ix + 1, error |-> FALSE]
    ELSE [lua |-> T1, idx |-> ix, error |-> TRUE]

\* populate_lua_state(L, ln, list, section, k, v), the n-th call of it in this
\* parse, with the table T on the stack and idx = ix: the table and idx it
\* leaves, and whether it raised an error (luaL_error)
populate_lua_state(T, ix, n, lst, sec, k, v) ==
    LET path == SectionPath(sec)
        T1   == Nested(T, path, 1, n)
        at   == Append(path, StrKey(k))
    IN
    IF lst = NOLIST THEN
        \* lua_pushstring(L, v); lua_setfield(L, -2, k);
        [lua |-> SetField(T1, at, StringNode(v)), idx |-> ix, error |-> FALSE]
    ELSE IF lst = LIST_HEAD THEN
        \* idx = 1; lua_newtable(L); lua_setfield(L, -2, k);
        [lua |-> SetField(T1, at, TableNode(n, Len(at))), idx |-> 1, error |-> FALSE]
    ELSE IF lst \in {LIST_ONGOING, LIST_LAST} THEN
        IF ~IsTable(T1, at) THEN [lua |-> T1, idx |-> ix, error |-> TRUE]
        \* t[k][idx] = v; ++idx;
        ELSE [lua |-> SetField(T1, Append(at, IntKey(ix)), StringNode(v)),
              idx |-> ix + 1, error |-> FALSE]
    ELSE [lua |-> T1, idx |-> ix, error |-> TRUE]

\* dispatch_lua_error(L, error, ln): luaL_error raises a Lua error and
\* parse_ini_config_file is left; nothing is printed
dispatch_lua_error(error, l) ==
    /\ pc' = "lua_error"
    /\ exit_error' = error
    /\ exit_ln' = l
    /\ UNCHANGED stderr

\* `if ( (rc = populate_lua_state(L, ln, list, section, key, val)) ) return rc;`
\* with what populate_lua_state leaves; cont is the loop the call is made in
call_populate(l, lst, sec, k, v, cont) ==
    LET r == populate_lua_state(lua, idx, Len(calls) + 1, lst, sec, k, v) IN
    /\ cb(l, lst, sec, k, v, 0)
    /\ lua' = r.lua
    /\ idx' = r.idx
    /\ rc' = 0
    /\ IF r.error
       THEN /\ pc' = "lua_error"
            /\ exit_error' = CINIC_SUCCESS
            /\ exit_ln' = l
            /\ UNCHANGED stderr
       ELSE /\ pc' = cont
            /\ UNCHANGED <<exit_error, exit_ln, stderr>>

\* the number of calls of cinic.parse in a process, and the number of lines
\* of the longest file they read
MaxLuaParses == 2

MaxLua == 4

\* the delimiters cinic.parse is called with
LuaDelims == { ".", "/", "::" }

\* the text of the lines of those files: sections of one and two components,
\* a record, lists on one line and on several, an empty list
LuaBodies == { "[s]", "[s.k]", "k=a", "k=[a,b]", "j=[", "a,", "b", "]", "j=[]" }

LuaLines == { b \o "\n" : b \in LuaBodies }

\* the process before cinic.parse is called
InitLua ==
    /\ ALLOW_GLOBAL_RECORDS = FALSE
    /\ ALLOW_EMPTY_LISTS = FALSE
    /\ SECTION_NS_SEP = "."
    /\ section_delim = NUL
    /\ buff__ = NUL
    /\ pc = "lua_start"
    /\ rc = 0
    /\ key = NUL /\ val = NUL /\ section = NUL
    /\ list = NOLIST
    /\ islast = FALSE
    /\ ln = 0
    /\ curr_token_buff = NUL
    /\ next_token = NUL
    /\ exit_error = CINIC_SUCCESS /\ exit_ln = 0
    /\ stderr = NUL
    /\ lines = <<>>
    /\ calls = <<>>
    /\ gle = NoCall
    /\ before = <<>>
    /\ calls_at_head = 0
    /\ eof = FALSE
    /\ f = "none"
    /\ heap = "none"
    /\ parsed = <<>>
    /\ again = 0
    /\ err2str = NoErr2str
    /\ idx = 1                               \* static LUA_INTEGER idx = 1;
    /\ lua = EmptyTable
    /\ cp = NoCp

\* parse_ini_config_file(L) is called (the first time, or after a call that
\* returned or raised an error), up to its loop over the lines
parse_ini_config_file ==
    /\ pc \in {"lua_start", "lua_returned", "lua_error"}
    /\ Len(parsed) < MaxLuaParses
    /\ parsed' = Append(parsed, [ended |-> pc])
    /\ \E allow_globals \in BOOLEAN, delim \in LuaDelims :
        IF Len(delim) > 1 THEN
            \* luaL_error(L, "Invalid delimiter provided: ...")
            /\ pc' = "lua_error"
            /\ UNCHANGED <<ALLOW_GLOBAL_RECORDS, ALLOW_EMPTY_LISTS, SECTION_NS_SEP,
                           section_delim, buff__, rc, key, val, section, list,
                           islast, ln, curr_token_buff, next_token, exit_error,
                           exit_ln, stderr, lines, calls, gle, before,
                           calls_at_head, eof, f, heap, again, err2str, idx, lua, cp>>
        ELSE
            \* Cinic_init(allow_globals, allow_empty_lists, ns_delim);
            /\ ALLOW_GLOBAL_RECORDS' = allow_globals
            /\ ALLOW_EMPTY_LISTS' = TRUE
            /\ section_delim' = delim
            /\ SECTION_NS_SEP' = delim
            /\ rc' = 0
            /\ key' = NUL /\ val' = NUL /\ section' = NUL
            /\ list' = NOLIST
            /\ islast' = FALSE
            /\ ln' = 0
            /\ heap' = "none"
            /\ f' = "open"
            /\ lua' = EmptyTable             \* lua_settop(L, 0); lua_newtable(L);
            /\ pc' = "lua_loop"
            /\ curr_token_buff' = NUL /\ next_token' = NUL
            /\ exit_error' = CINIC_SUCCESS /\ exit_ln' = 0
            /\ lines' = <<>> /\ calls' = <<>> /\ before' = <<>>
            /\ gle' = NoCall /\ calls_at_head' = 0 /\ eof' = FALSE
            /\ UNCHANGED <<buff__, stderr, again, err2str, idx, cp>>

\* read_line() returns 0: the loop ends, parse_ini_config_file returns the
\* table
LuaReadEOF ==
    /\ pc = "lua_loop"
    /\ pc' = "lua_returned"
    /\ eof' = TRUE
    /\ f' = "closed"                         \* fclose(f);
    /\ heap' = "freed"                       \* free(buff__);
    /\ UNCHANGED <<ALLOW_GLOBAL_RECORDS, ALLOW_EMPTY_LISTS, SECTION_NS_SEP,
                   section_delim, buff__, rc, key, val, section,
                   list, islast, ln, curr_token_buff, next_token, exit_error,
                   exit_ln, stderr, lines, calls, gle, before, calls_at_head,
                   parsed, again, err2str, idx, lua, cp>>

\* one iteration of the loop over the lines of parse_ini_config_file, up to
\* the token loop
LuaReadLine ==
    /\ pc = "lua_loop"
    /\ ln < MaxLua
    /\ \E raw \in LuaLines :
        LET bytes_read == read_line([hi |-> 0, lo |-> 0], Len(raw))
            buff == normalize(raw)
            sec  == is_section_line(buff, MAX_LINE_LEN)
            rec  == is_record_line(buff, MAX_LINE_LEN)
        IN
        /\ ln' = ln + 1
        /\ lines' = Append(lines, raw)
        /\ before' = Append(before, [list |-> list, section |-> section,
                                     len |-> getline([hi |-> 0, lo |-> 0], Len(raw))])
        /\ heap' = "allocated"
        /\ UNCHANGED <<ALLOW_GLOBAL_RECORDS, ALLOW_EMPTY_LISTS, SECTION_NS_SEP,
                       section_delim, buff__, list, islast,
                       curr_token_buff, gle, calls_at_head, eof, f, parsed,
                       again, err2str, cp>>
        /\ IF Exceeds(bytes_read, MAX_LINE_LEN) THEN
                /\ dispatch_lua_error(CINIC_TOOLONG, ln + 1)
                /\ UNCHANGED <<rc, key, val, section, next_token, calls, idx, lua>>
           ELSE IF is_empty_line(raw) \/ is_comment_line(raw) THEN
                UNCHANGED <<pc, rc, key, val, section, next_token, calls,
                            exit_error, exit_ln, stderr, idx, lua>>
           ELSE IF sec.ok THEN
                /\ section' = sec.name
                /\ IF list # NOLIST
                   THEN dispatch_lua_error(CINIC_NESTED, ln + 1)
                   ELSE UNCHANGED <<pc, exit_error, exit_ln, stderr>>
                /\ UNCHANGED <<rc, key, val, next_token, calls, idx, lua>>
           ELSE IF rec.ok THEN
                /\ key' = rec.k
                /\ val' = rec.v
                /\ UNCHANGED <<section, next_token>>
                /\ IF record_error(section, list) # CINIC_SUCCESS THEN
                        /\ dispatch_lua_error(record_error(section, list), ln + 1)
                        /\ UNCHANGED <<rc, calls, idx, lua>>
                   ELSE call_populate(ln + 1, list, section, rec.k, rec.v, "lua_loop")
           ELSE
                /\ pc' = "lua_tokens"
                /\ next_token' = buff
                /\ UNCHANGED <<rc, key, val, section, calls, exit_error, exit_ln,
                               stderr, idx, lua>>

\* variant: the list head branch ends with `continue`, as in Cinic_parse
LuaListToken_continue ==
    /\ pc = "lua_tokens"
    /\  LET t     == get_list_token(next_token, curr_token_buff, MAX_LINE_LEN)
            tok   == t.buff
            head  == is_list_head(tok, MAX_LINE_LEN)
            entry == is_list_entry(tok, MAX_LINE_LEN)
            nxt   == IF head.ok THEN LIST_HEAD
                     ELSE IF is_list_start(tok) THEN LIST_OPEN
                     ELSE IF entry.ok
                          THEN (IF entry.islast THEN LIST_LAST ELSE LIST_ONGOING)
                     ELSE NOLIST
            cerr  == Cinic_get_list_error(list, nxt)
            k     == IF head.ok THEN head.k ELSE key
            v     == IF ~head.ok /\ ~is_list_start(tok) /\ entry.ok
                     THEN entry.v ELSE val
        IN
        /\ UNCHANGED <<ALLOW_GLOBAL_RECORDS, ALLOW_EMPTY_LISTS, SECTION_NS_SEP,
                       section_delim, buff__, section, ln,
                       lines, before, eof, f, heap, parsed, again, err2str, cp>>
        /\ calls_at_head' = IF ~t.null /\ head.ok /\ cerr = CINIC_SUCCESS
                            THEN Len(calls) ELSE calls_at_head
        /\ IF t.null THEN
                /\ pc' = "lua_loop"
                /\ curr_token_buff' = NUL
                /\ next_token' = NUL
                /\ UNCHANGED <<rc, key, val, list, islast, exit_error, exit_ln, stderr,
                               calls, gle, idx, lua>>
           ELSE
                /\ curr_token_buff' = tok
                /\ next_token' = t.next
                /\ key' = k
                /\ val' = v
                /\ IF ~head.ok /\ ~is_list_start(tok) /\ entry.ok /\ entry.assert_fails
                   THEN /\ pc' = "aborted"
                        /\ UNCHANGED <<rc, list, islast, exit_error, exit_ln, stderr,
                                       calls, gle, idx, lua>>
                   ELSE IF ~head.ok /\ ~is_list_start(tok) /\ ~entry.ok
                           /\ ~is_list_end(tok)
                   THEN /\ dispatch_lua_error(CINIC_MALFORMED, ln)
                        /\ UNCHANGED <<rc, list, islast, calls, gle, idx, lua>>
                   ELSE /\ gle' = [prev |-> list, next |-> nxt, err |-> cerr,
                                   made |-> TRUE]
                        /\ IF cerr # CINIC_SUCCESS THEN
                                /\ dispatch_lua_error(cerr, ln)
                                /\ islast' = IF ~head.ok /\ ~is_list_start(tok) /\ entry.ok
                                             THEN entry.islast ELSE islast
                                /\ UNCHANGED <<rc, list, calls, idx, lua>>
                           ELSE /\ list' = nxt
                                /\ islast' = IF head.ok THEN FALSE
                                             ELSE IF ~is_list_start(tok) /\ entry.ok
                                             THEN entry.islast ELSE islast
                                /\ IF nxt \in {LIST_HEAD, LIST_OPEN, NOLIST}
                                   THEN UNCHANGED <<pc, rc, calls, exit_error, exit_ln,
                                                    stderr, idx, lua>>
                                   ELSE call_populate(ln, nxt, section, k, v,
                                                      "lua_tokens")

\* one iteration of the loop over the tokens of a line in
\* parse_ini_config_file: the branches of an opening and of a closing bracket
\* end with `continue`, those of a list head and of a list entry go on to
\* populate_lua_state
LuaListToken ==
    /\ pc = "lua_tokens"
    /\  LET t     == get_list_token(next_token, curr_token_buff, MAX_LINE_LEN)
            tok   == t.buff
            head  == is_list_head(tok, MAX_LINE_LEN)
            entry == is_list_entry(tok, MAX_LINE_LEN)
            nxt   == IF head.ok THEN LIST_HEAD
                     ELSE IF is_list_start(tok) THEN LIST_OPEN
                     ELSE IF entry.ok
                          THEN (IF entry.islast THEN LIST_LAST ELSE LIST_ONGOING)
                     ELSE NOLIST
            cerr  == Cinic_get_list_error(list, nxt)
            k     == IF head.ok THEN head.k ELSE key
            v     == IF ~head.ok /\ ~is_list_start(tok) /\ entry.ok
                     THEN entry.v ELSE val
        IN
        /\ UNCHANGED <<ALLOW_GLOBAL_RECORDS, ALLOW_EMPTY_LISTS, SECTION_NS_SEP,
                       section_delim, buff__, section, ln,
                       lines, before, eof, f, heap, parsed, again, err2str, cp>>
        /\ calls_at_head' = IF ~t.null /\ head.ok /\ cerr = CINIC_SUCCESS
                            THEN Len(calls) ELSE calls_at_head
        /\ IF t.null THEN
                \* no token left: back to the loop over the lines
                /\ pc' = "lua_loop"
                /\ curr_token_buff' = NUL
                /\ next_token' = NUL
                /\ UNCHANGED <<rc, key, val, list, islast, exit_error, exit_ln, stderr,
                               calls, gle, idx, lua>>
           ELSE
                /\ curr_token_buff' = tok
                /\ next_token' = t.next
                /\ key' = k
                /\ val' = v
                /\ IF ~head.ok /\ ~is_list_start(tok) /\ entry.ok /\ entry.assert_fails
                   THEN \* assert(! *line) in is_list_entry
                        /\ pc' = "aborted"
                        /\ UNCHANGED <<rc, list, islast, exit_error, exit_ln, stderr,
                                       calls, gle, idx, lua>>
                   ELSE IF ~head.ok /\ ~is_list_start(tok) /\ ~entry.ok
                           /\ ~is_list_end(tok)
                   THEN /\ dispatch_lua_error(CINIC_MALFORMED, ln)
                        /\ UNCHANGED <<rc, list, islast, calls, gle, idx, lua>>
                   ELSE /\ gle' = [prev |-> list, next |-> nxt, err |-> cerr,
                                   made |-> TRUE]
                        /\ IF cerr # CINIC_SUCCESS THEN
                                /\ dispatch_lua_error(cerr, ln)
                                /\ islast' = IF ~head.ok /\ ~is_list_start(tok) /\ entry.ok
                                             THEN entry.islast ELSE islast
                                /\ UNCHANGED <<rc, list, calls, idx, lua>>
                           ELSE /\ list' = nxt
                                /\ islast' = IF head.ok THEN FALSE
                                             ELSE IF ~is_list_start(tok) /\ entry.ok
                                             THEN entry.islast ELSE islast
                                /\ IF nxt \in {LIST_OPEN, NOLIST}
                                   THEN UNCHANGED <<pc, rc, calls, exit_error, exit_ln,
                                                    stderr, idx, lua>>
                                   ELSE call_populate(ln, nxt, section, k, v,
                                                      "lua_tokens")

(***************************************************************************)
(* cp_to_buff, statement by statement                                      *)
(***************************************************************************)
\* the longest src, the largest buffsz and the largest null_at of a call of
\* cp_to_buff, and the number of bytes that lie behind dst[buffsz - 1]
MaxSrc == 3

MaxBuffsz == 4

MaxNullAt == 5

Behind == 2

\* the bytes the array dst and the bytes behind it hold before the call
\* (dst[i] is mem[i + 1]): the same byte everywhere, a character or NUL
Memory(buffsz) ==
    { [i \in 1..(buffsz + Behind) |-> g] : g \in {"x", NUL} }

\* cp_to_buff(dst, src, buffsz, null_at) is called, dst and src being
\* distinct objects as in every call of it, and the assert holds
InitCp ==
    /\ ALLOW_GLOBAL_RECORDS = FALSE
    /\ ALLOW_EMPTY_LISTS = FALSE
    /\ SECTION_NS_SEP = "."
    /\ section_delim = NUL
    /\ buff__ = NUL
    /\ pc = "cp_memset"
    /\ rc = 0
    /\ key = NUL /\ val = NUL /\ section = NUL
    /\ list = NOLIST
    /\ islast = FALSE
    /\ ln = 0
    /\ curr_token_buff = NUL
    /\ next_token = NUL
    /\ exit_error = CINIC_SUCCESS /\ exit_ln = 0
    /\ stderr = NUL
    /\ lines = <<>>
    /\ calls = <<>>
    /\ gle = NoCall
    /\ before = <<>>
    /\ calls_at_head = 0
    /\ eof = FALSE
    /\ f = "none"
    /\ heap = "none"
    /\ parsed = <<>>
    /\ again = 0
    /\ err2str = NoErr2str
    /\ idx = 1
    /\ lua = EmptyTable
    /\ \E s \in Strings({"a", "b"}, MaxSrc), n \in 1..MaxBuffsz, at \in 0..MaxNullAt :
        \E m \in Memory(n) :
            cp = [src |-> s, buffsz |-> n, null_at |-> at, dst |-> m, written |-> {}]

\* what the statements of cp_to_buff leave alone
CpFrame ==
    UNCHANGED <<ALLOW_GLOBAL_RECORDS, ALLOW_EMPTY_LISTS, SECTION_NS_SEP,
                section_delim, buff__, rc, key, val, section, list, islast, ln,
                curr_token_buff, next_token, exit_error, exit_ln, stderr, lines,
                calls, gle, before, calls_at_head, eof, f, heap, parsed, again,
                err2str, idx, lua>>

\* the bytes dst[from] .. dst[from + Len(bytes) - 1] are written
Store(c, from, bytes) ==
    [c EXCEPT !.dst = [i \in DOMAIN c.dst |->
                          IF i - 1 >= from /\ i - 1 < from + Len(bytes)
                          THEN bytes[i - from] ELSE c.dst[i]],
              !.written = c.written \cup { from + j - 1 : j \in 1..Len(bytes) }]

\* memset(dst, 0, buffsz);
Memset ==
    /\ pc = "cp_memset"
    /\ cp' = Store(cp, 0, [j \in 1..cp.buffsz |-> NUL])
    /\ pc' = "cp_strncpy"
    /\ CpFrame

\* strncpy(dst, src, buffsz - 1): exactly buffsz - 1 bytes are written, the
\* characters of src and then NUL bytes
Strncpy ==
    /\ pc = "cp_strncpy"
    /\ cp' = Store(cp, 0, [j \in 1..(cp.buffsz - 1) |-> At(cp.src, j)])
    /\ pc' = "cp_terminate"
    /\ CpFrame

\* variant: the test is null_at <= buffsz
Terminate_le ==
    /\ pc = "cp_terminate"
    /\ cp' = IF cp.null_at <= cp.buffsz
             THEN Store(cp, cp.null_at, <<NUL>>)
             ELSE Store(cp, cp.buffsz - 1, <<NUL>>)
    /\ pc' = "cp_done"
    /\ CpFrame

\* `if (null_at < buffsz) dst[null_at] = '\0'; else dst[buffsz-1] = '\0';`
Terminate ==
    /\ pc = "cp_terminate"
    /\ cp' = IF cp.null_at < cp.buffsz
             THEN Store(cp, cp.null_at, <<NUL>>)
             ELSE Store(cp, cp.buffsz - 1, <<NUL>>)
    /\ pc' = "cp_done"
    /\ CpFrame

\* the string an array of bytes holds: the bytes before its first NUL byte
\* (all of them if none is NUL)
CString(m) ==
    LET nuls == { i \in 1..Len(m) : m[i] = NUL }
        n    == IF nuls = {} THEN Len(m) ELSE Least(nuls) - 1
        RECURSIVE Cat(_)
        Cat(i) == IF i > n THEN NUL ELSE m[i] \o Cat(i + 1)
    IN  Cat(1)

ReadLine == ReadLineFrom(Lines, NoFill, MaxLines)

ReadWideLine == ReadLineFrom(WideLines, NoFill, MaxWide)

ReadLongLine == ReadLineFrom(LongLines, Fills, MaxLong)

Next == ReadEOF \/ ReadLine \/ ListToken

Spec == Init /\ [][Next]_vars

NextWide == ReadEOF \/ ReadWideLine \/ ListToken

SpecWide == Init /\ [][NextWide]_vars

NextLong == ReadEOF \/ ReadLongLine \/ ListToken

SpecLong == Init /\ [][NextLong]_vars

ReadInitLine == ReadLineFrom(Lines, NoFill, MaxInit)

NextInit == Cinic_init \/ ReadEOF \/ ReadInitLine \/ ListToken

SpecInit == InitStart /\ [][NextInit]_vars

NextText == StripLws \/ StripComment \/ StripTws \/ SectionLine

SpecText == InitText /\ [][NextText]_vars

NextClass == RecordLine \/ ListHead \/ ListEntry

SpecClass == InitClass /\ [][NextClass]_vars

NextAgain == Cinic_parse \/ ReadAgainEOF \/ ReadAgainLine \/ ListToken

SpecAgain == Init /\ [][NextAgain]_vars

NextSect == ReadEOF \/ ReadSectLine \/ ListToken

SpecSect == Init /\ [][NextSect]_vars

NextDelim == Cinic_init \/ ReadEOF \/ ReadDelimLine \/ ListToken

SpecDelim == InitStart /\ [][NextDelim]_vars

NextSplit == ReadSplitEOF \/ ReadSplitLine \/ ListToken

SpecSplit == Init /\ [][NextSplit]_vars

NextTok == ReadEOF \/ ReadTokLine \/ ListToken

SpecTok == Init /\ [][NextTok]_vars

\* the token loop is a loop of a sequential program: while Cinic_parse is in
\* it, its next iteration is taken. This is the weak fairness of ListToken,
\* WF_vars(ListToken), written out with the guard of ListToken, pc = "tokens",
\* for its enabling condition
SpecTokLive ==
    SpecTok /\ ([]<>(pc # "tokens") \/ []<><<ListToken>>_vars)

NextFull == ReadEOF \/ ReadFullLine \/ ListToken

SpecFull == Init /\ [][NextFull]_vars

NextLua == parse_ini_config_file \/ LuaReadEOF \/ LuaReadLine \/ LuaListToken

SpecLua == InitLua /\ [][NextLua]_vars

NextCp == Memset \/ Strncpy \/ Terminate

SpecCp == InitCp /\ [][NextCp]_vars

NextErr == Err2str

SpecErr == InitErr /\ [][NextErr]_vars

TypeOK ==
    /\ pc \in {"start", "init_exited", "loop", "tokens", "returned", "exited",
              "aborted", "strip_lws", "strip_comment", "strip_tws",
              "normalized", "section", "not_section", "classify", "record",
              "not_record", "head", "not_head", "entry", "not_entry",
              "err2str", "err2str_exited", "err2str_returned",
              "lua_start", "lua_loop", "lua_tokens", "lua_returned", "lua_error",
              "cp_memset", "cp_strncpy", "cp_terminate", "cp_done"}
    /\ idx \in Nat \ {0}
    /\ list \in ListStates
    /\ ln \in Nat
    /\ Len(lines) = ln

(***************************************************************************)
(* Properties                                                              *)
(***************************************************************************)
Last(q) == q[Len(q)]

\* the pairs (prev, next) the transition table lists as legal
LegalPair(prev, next) ==
    \/ prev = NOLIST /\ next = LIST_HEAD
    \/ prev = LIST_HEAD /\ next = LIST_OPEN
    \/ prev = LIST_OPEN /\ next \in {LIST_ONGOING, LIST_LAST}
    \/ prev = LIST_ONGOING /\ next \in {LIST_ONGOING, LIST_LAST}
    \/ prev = LIST_LAST /\ next = NOLIST
    \/ prev = LIST_OPEN /\ next = NOLIST /\ ALLOW_EMPTY_LISTS

\* C1: Cinic_get_list_error returns CINIC_SUCCESS only for a legal pair of the
\* transition table ((ListOpen, NoList) being legal only when empty lists are
\* allowed); for every other pair it returns an error kind.
C1_SuccessOnlyIfLegal ==
    gle.made =>
        /\ (gle.err = CINIC_SUCCESS => LegalPair(gle.prev, gle.next))
        /\ (~LegalPair(gle.prev, gle.next) =>
                gle.err \in (CINIC_SUCCESS + 1)..(CINIC_SENTINEL - 1))

\* an illegal pair (a second last entry after the last one) was rejected
C1_Witness ==
    /\ gle.made
    /\ gle.prev = LIST_LAST /\ gle.next = LIST_LAST
    /\ gle.err # CINIC_SUCCESS
    /\ pc = "exited"

\* the error kind the table gives for an illegal pair (0 where the claim
\* names none)
TableError(prev, next) ==
    CASE prev = NOLIST /\ next = NOLIST -> CINIC_REDUNDANT_BRACKET
      [] prev = NOLIST /\ next \in {LIST_OPEN, LIST_ONGOING, LIST_LAST} -> CINIC_NOLIST
      [] prev = LIST_HEAD /\ next = LIST_HEAD -> CINIC_MALFORMED_LIST
      [] prev = LIST_HEAD /\ next \in {NOLIST, LIST_ONGOING, LIST_LAST} -> CINIC_LIST_NOT_STARTED
      [] prev = LIST_OPEN /\ next = LIST_HEAD -> CINIC_NESTED
      [] prev = LIST_OPEN /\ next = LIST_OPEN -> CINIC_REDUNDANT_BRACKET
      [] prev = LIST_ONGOING /\ next = NOLIST -> CINIC_REDUNDANT_COMMA
      [] prev = LIST_ONGOING /\ next \in {LIST_HEAD, LIST_OPEN} -> CINIC_LIST_NOT_ENDED
      [] prev = LIST_LAST /\ next = LIST_HEAD -> CINIC_NESTED
      [] prev = LIST_LAST /\ next = LIST_OPEN -> CINIC_MALFORMED_LIST
      [] prev = LIST_LAST /\ next \in {LIST_ONGOING, LIST_LAST} -> CINIC_MISSING_COMMA
      [] OTHER -> CINIC_SUCCESS

\* C2: for every illegal pair the table names, Cinic_get_list_error returns
\* exactly the error kind of the table, and that kind is what ends the parse.
C2_ExactErrorKind ==
    (gle.made /\ TableError(gle.prev, gle.next) # CINIC_SUCCESS) =>
        /\ gle.err = TableError(gle.prev, gle.next)
        /\ pc = "exited"
        /\ exit_error = TableError(gle.prev, gle.next)

\* a closing bracket right after a comma was answered with RedundantComma
C2_Witness ==
    /\ gle.made
    /\ gle.prev = LIST_ONGOING /\ gle.next = NOLIST
    /\ gle.err = CINIC_REDUNDANT_COMMA
    /\ exit_error = CINIC_REDUNDANT_COMMA

\* the token just taken from the line is a closing bracket, and it came
\* directly after the opening bracket of a list the parser had accepted
CloseAfterOpen ==
    /\ pc \in {"tokens", "exited"}
    /\ is_list_end(curr_token_buff)
    /\ gle.made /\ gle.prev = LIST_OPEN /\ gle.next = NOLIST

\* C3: with allow_empty_lists = true a list with zero entries is accepted: the
\* ListOpen -> NoList transition succeeds, no callback is invoked for the list,
\* the list state is NoList afterwards and the parse goes on.
C3_EmptyListAccepted ==
    (ALLOW_EMPTY_LISTS /\ CloseAfterOpen) =>
        /\ gle.err = CINIC_SUCCESS
        /\ pc = "tokens"
        /\ list = NOLIST
        /\ Len(calls) = calls_at_head

\* C4: with allow_empty_lists = false a closing bracket that directly follows
\* the opening bracket (same line, or a later line after blank or comment
\* lines) is the fatal error EmptyList at the line of the closing bracket, and
\* no callback was invoked for that list.
C4_EmptyListFatal ==
    (~ALLOW_EMPTY_LISTS /\ CloseAfterOpen) =>
        /\ pc = "exited"
        /\ exit_error = CINIC_EMPTY_LIST
        /\ exit_ln = ln
        /\ Len(calls) = calls_at_head

\* the closing bracket stands alone on line 3, after a blank or comment line
C4_Witness ==
    /\ ~ALLOW_EMPTY_LISTS
    /\ CloseAfterOpen
    /\ ln = 3
    /\ is_empty_line(lines[2]) \/ is_comment_line(lines[2])
    /\ exit_error = CINIC_EMPTY_LIST /\ exit_ln = 3

(***************************************************************************)
(* Reading the text of a line, for the statements about whole lists        *)
(***************************************************************************)
\* the line without its whitespace
RECURSIVE Squeeze(_)
Squeeze(s) ==
    IF s = NUL THEN NUL
    ELSE (IF isspace(At(s, 1)) THEN NUL ELSE At(s, 1)) \o Squeeze(Adv(s, 1))

Keys == {"k", "j"}

Entries == {"a", "b", "c"}

\* the arguments of a callback invocation
Args(c) == [ln |-> c.ln, list |-> c.list, section |-> c.section,
            k |-> c.k, v |-> c.v]

ArgsOf(q) == [i \in 1..Len(q) |-> Args(q[i])]

\* the invocations made for line h and after / for line h
CallsFrom(h) == ArgsOf(SelectSeq(calls, LAMBDA c : c.ln >= h))

CallsAt(h) == ArgsOf(SelectSeq(calls, LAMBDA c : c.ln = h))

IsPrefix(p, q) == Len(p) <= Len(q) /\ SubSeq(q, 1, Len(p)) = p

\* line h is read with no list open and is a list head line `key = [`
IsHeadLine(h) ==
    /\ before[h].list = NOLIST
    /\ \E K \in Keys : Squeeze(lines[h]) = K \o "=["

HeadKeyOf(h) == CHOOSE K \in Keys : Squeeze(lines[h]) = K \o "=["

\* what a line after the head line is: an entry followed by a comma, an entry
\* alone, the closing bracket, or something else
EntryKind(l) ==
    IF \E e \in Entries : Squeeze(l) = e \o "," THEN "ongoing"
    ELSE IF Squeeze(l) \in Entries THEN "last"
    ELSE IF Squeeze(l) = "]" THEN "close"
    ELSE "other"

EntryText(l) == CHOOSE e \in Entries : Squeeze(l) \in {e, e \o ","}

\* the lines read after head line h are the start of a well-formed multi-line
\* list: entries with a comma, then the last entry, then the closing bracket
WellFormedAfter(h) ==
    \A i \in 1..(ln - h) :
        LET kd == EntryKind(lines[h + i]) IN
        /\ kd # "other"
        /\ kd \in {"ongoing", "last"} =>
                \A j \in 1..(i - 1) : EntryKind(lines[h + j]) = "ongoing"
        /\ kd = "close" =>
                i = ln - h /\ i > 1 /\ EntryKind(lines[h + i - 1]) = "last"

\* the callbacks a well-formed multi-line list is to produce, from line h + i on
RECURSIVE ExpectedEntries(_, _)
ExpectedEntries(h, i) ==
    IF i > ln - h THEN <<>>
    ELSE LET l  == lines[h + i]
             kd == EntryKind(l)
         IN (IF kd \in {"ongoing", "last"}
             THEN << [ln |-> h + i,
                      list |-> IF kd = "last" THEN LIST_LAST ELSE LIST_ONGOING,
                      section |-> before[h].section,
                      k |-> HeadKeyOf(h),
                      v |-> EntryText(l)] >>
             ELSE <<>>) \o ExpectedEntries(h, i + 1)

\* C5: a well-formed multi-line list (head line `key = [`, n >= 1 entries one
\* per line, all but the last followed by a comma, then the closing bracket)
\* raises no error and yields exactly one callback per entry, in input order,
\* ListOngoing for all but the last and ListLast for the last, each with the
\* number of its line, the section of the list, the head key and the entry
\* text; the head line and the bracket line yield none.
C5_MultiLineList ==
    \A h \in 1..ln :
        (IsHeadLine(h) /\ WellFormedAfter(h)) =>
            /\ pc \notin {"exited", "aborted"}
            /\ IsPrefix(CallsFrom(h), ExpectedEntries(h, 1))
            /\ pc # "tokens" => CallsFrom(h) = ExpectedEntries(h, 1)

\* a list of two entries on four lines has been read to its closing bracket
C5_Witness ==
    /\ pc = "loop"
    /\ ln = 4
    /\ IsHeadLine(1) /\ WellFormedAfter(1)
    /\ EntryKind(lines[2]) = "ongoing"
    /\ EntryKind(lines[3]) = "last"
    /\ EntryKind(lines[4]) = "close"
    /\ Len(calls) = 2
    /\ calls[1].list = LIST_ONGOING /\ calls[2].list = LIST_LAST

\* the lists of one to three entries
EntrySeqs == UNION { [1..n -> Entries] : n \in 1..3 }

RECURSIVE Join(_, _)
Join(es, i) ==
    IF i > Len(es) THEN NUL
    ELSE es[i] \o (IF i < Len(es) THEN "," ELSE NUL) \o Join(es, i + 1)

\* the text, without whitespace, of the inline list `K = [ e1, ..., en ]`
Render(K, es) == K \o "=[" \o Join(es, 1) \o "]"

InlineTexts == { Render(p[1], p[2]) : p \in Keys \X EntrySeqs }

\* the key and the entries of each such text
InlineParts ==
    [t \in InlineTexts |-> CHOOSE p \in Keys \X EntrySeqs : Render(p[1], p[2]) = t]

\* line h is read with no list open and holds an entire list
IsInlineList(h) ==
    /\ before[h].list = NOLIST
    /\ Squeeze(lines[h]) \in InlineTexts

InlineOf(h) == InlineParts[Squeeze(lines[h])]

\* the callbacks the inline list on line h is to produce
ExpectedInline(h) ==
    LET K  == InlineOf(h)[1]
        es == InlineOf(h)[2]
    IN  [i \in 1..Len(es) |->
            [ln |-> h,
             list |-> IF i = Len(es) THEN LIST_LAST ELSE LIST_ONGOING,
             section |-> before[h].section,
             k |-> K,
             v |-> es[i]]]

\* line h has been processed to its end
LineDone(h) == h < ln \/ pc = "loop" \/ (pc = "returned" /\ eof)

\* C6: one physical line that holds an entire list `key = [ e1, ..., en ]`
\* yields exactly one callback per entry, left to right, all with the number
\* of that line and the head key, ListOngoing for e1..e(n-1) and ListLast for
\* en, and leaves the list state at NoList after the line.
C6_InlineList ==
    \A h \in 1..ln :
        IsInlineList(h) =>
            /\ h = ln => pc \notin {"exited", "aborted"}
            /\ IsPrefix(CallsAt(h), ExpectedInline(h))
            /\ LineDone(h) =>
                    /\ CallsAt(h) = ExpectedInline(h)
                    /\ (IF h < ln THEN before[h + 1].list ELSE list) = NOLIST

\* the three entries of a spaced inline list have been delivered
C6_Witness ==
    /\ pc = "loop"
    /\ ln >= 1
    /\ IsInlineList(ln)
    /\ Len(InlineOf(ln)[2]) = 3
    /\ Len(CallsAt(ln)) = 3
    /\ Last(calls).list = LIST_LAST
    /\ list = NOLIST

\* the texts of the record line `K = V`
RecordTexts(K, V) ==
    { K \o s1 \o "=" \o s2 \o V \o "\n" : s1 \in {"", " "}, s2 \in {"", " "} }

RecordValues == {"a", "b", "a b"}

SectionNames == {"s", "t", "s.t"}

SectionTexts == { "[" \o n \o "]" : n \in SectionNames }

IsSectionText(l) == Squeeze(l) \in SectionTexts

AllRecordTexts == UNION { RecordTexts(p[1], p[2]) : p \in Keys \X RecordValues }

\* the key and the value of each such text
RecordParts ==
    [t \in AllRecordTexts |->
        CHOOSE p \in Keys \X RecordValues : t \in RecordTexts(p[1], p[2])]

\* line h is a key=value record line and no section header precedes it
IsGlobalRecord(h) ==
    /\ lines[h] \in AllRecordTexts
    /\ \A i \in 1..(h - 1) : ~IsSectionText(lines[i])

RecordOf(h) == RecordParts[lines[h]]

\* line h ended the parse with the fatal error e and no callback was made for it
FatalAt(h, e) ==
    /\ h = ln
    /\ pc = "exited" /\ exit_error = e /\ exit_ln = h
    /\ CallsAt(h) = <<>>

\* line h was accepted as a record of the section sec
RecordDelivered(h, sec) ==
    /\ ~(h = ln /\ pc = "exited")
    /\ CallsAt(h) = << [ln |-> h, list |-> NOLIST, section |-> sec,
                        k |-> RecordOf(h)[1], v |-> RecordOf(h)[2]] >>

\* C7 as stated: with allow_global_records = false a record line before any
\* section header is the fatal error NoSection at that line, with no callback
\* for it; with allow_global_records = true the same line is accepted and the
\* callback is invoked with an empty section name.
C7_GlobalRecord ==
    \A h \in 1..ln :
        IsGlobalRecord(h) =>
            IF ~ALLOW_GLOBAL_RECORDS
            THEN FatalAt(h, CINIC_NOSECTION)
            ELSE RecordDelivered(h, NUL)

\* C7 amended: with allow_global_records = true the record line before any
\* section header is accepted, with an empty section name, when no list is
\* open at that line; when a list is open it is the fatal error NestedList.
C7_GlobalRecordNoList ==
    \A h \in 1..ln :
        IsGlobalRecord(h) =>
            IF ~ALLOW_GLOBAL_RECORDS
            THEN FatalAt(h, CINIC_NOSECTION)
            ELSE IF before[h].list = NOLIST
            THEN RecordDelivered(h, NUL)
            ELSE FatalAt(h, CINIC_NESTED)

\* a global record was delivered with an empty section name
C7_Witness ==
    /\ ALLOW_GLOBAL_RECORDS
    /\ ln >= 1
    /\ IsGlobalRecord(ln)
    /\ pc = "loop"
    /\ calls # <<>>
    /\ Last(calls).ln = ln /\ Last(calls).section = NUL
    /\ Last(calls).v = "a b"

\* C8: with ALLOW_GLOBAL_RECORDS = false no list-entry callback is ever invoked
\* with an empty section name (a list before any section is a fatal error).
C8_NoGlobalListEntry ==
    ~ALLOW_GLOBAL_RECORDS =>
        \A i \in 1..Len(calls) :
            calls[i].list \in {LIST_ONGOING, LIST_LAST} => calls[i].section # NUL

\* line h is read with no list open and is an inline list with a duplicated
\* comma between two entries, e.g. `k=[a,,b]`: its text without whitespace
DoubledCommaTexts ==
    { p[1] \o "=[" \o p[2] \o ",," \o p[3] \o "]" : p \in Keys \X Entries \X Entries }

HasDoubledComma(h) ==
    /\ before[h].list = NOLIST
    /\ Squeeze(lines[h]) \in DoubledCommaTexts

\* C9 as stated: a list line with a duplicated comma between entries ends the
\* parse with the fatal error RedundantComma at that line.
C9_RedundantComma ==
    \A h \in 1..ln :
        HasDoubledComma(h) =>
            /\ ~LineDone(h)
            /\ pc = "exited" =>
                    exit_error = CINIC_REDUNDANT_COMMA /\ exit_ln = h

\* C9 amended: the fatal error at that line is Malformed.
C9_DoubledCommaMalformed ==
    \A h \in 1..ln :
        HasDoubledComma(h) =>
            /\ ~LineDone(h)
            /\ pc = "exited" =>
                    exit_error = CINIC_MALFORMED /\ exit_ln = h

\* the parse has ended at the second comma of the line
C9_Witness ==
    /\ ln >= 1
    /\ HasDoubledComma(ln)
    /\ pc = "exited"
    /\ exit_ln = ln
    /\ curr_token_buff = ","
    /\ Len(CallsAt(ln)) = 1

\* what holds of the callback's return codes in every state
C10_Codes ==
    /\ \A i \in 1..(Len(calls) - 1) : calls[i].ret = 0
    /\ (calls # <<>> /\ Last(calls).ret # 0) =>
            pc = "returned" /\ rc = Last(calls).ret /\ ~eof
    /\ (pc = "returned" /\ rc # 0) =>
            calls # <<>> /\ Last(calls).ret = rc
    /\ (pc = "returned" /\ rc = 0) =>
            eof /\ \A i \in 1..Len(calls) : calls[i].ret = 0

\* once the callback has returned a nonzero code nothing more is read,
\* tokenized or delivered
C10_Stopped ==
    (calls # <<>> /\ Last(calls).ret # 0) =>
        /\ calls' = calls
        /\ lines' = lines /\ ln' = ln
        /\ curr_token_buff' = curr_token_buff /\ next_token' = next_token
        /\ pc' = pc /\ rc' = rc

\* C10: when the callback returns a nonzero code c, Cinic_parse stops at once
\* (no further token, line or callback) and returns exactly c; it returns 0
\* only when every callback returned 0 and the input was read to its end.
C10_CallbackStop == [](C10_Codes) /\ [][C10_Stopped]_vars

\* the callback stopped the parse at the first entry of a line that holds more
C10_Witness ==
    /\ pc = "returned"
    /\ rc # 0
    /\ Last(calls).list = LIST_ONGOING
    /\ next_token # NUL
    /\ ~eof

(***************************************************************************)
(* What causes a callback                                                  *)
(***************************************************************************)
\* every invocation made so far is for a record line (list state NoList, with
\* the key and the value of the line) or for a list entry of a line that is
\* neither blank, comment, section header nor record (ListOngoing, ListLast)
C11_Calls ==
    \A i \in 1..Len(calls) :
        LET c   == calls[i]
            raw == lines[c.ln]
            rec == is_record_line(normalize(raw), MAX_LINE_LEN)
        IN  /\ c.list \in {NOLIST, LIST_ONGOING, LIST_LAST}
            /\ ~is_empty_line(raw) /\ ~is_comment_line(raw)
            /\ ~is_section_line(normalize(raw), MAX_LINE_LEN).ok
            /\ (c.list = NOLIST) = rec.ok
            /\ rec.ok => c.k = rec.k /\ c.v = rec.v

\* line h is blank, a comment, a section header, or holds nothing but a list
\* head, an opening bracket or a closing bracket
SilentLine(h) ==
    LET raw == lines[h]
        l   == normalize(raw)
    IN  \/ is_empty_line(raw) \/ is_comment_line(raw)
        \/ is_section_line(l, MAX_LINE_LEN).ok
        \/ is_list_head(l, MAX_LINE_LEN).ok
        \/ is_list_start(l)
        \/ is_list_end(l)

C11_Silent == \A h \in 1..ln : SilentLine(h) => CallsAt(h) = <<>>

\* a step that invokes the callback invokes it once, from the record branch or
\* for a token that is a list entry (not a head, not a bracket)
C11_Step ==
    calls' # calls =>
        /\ Len(calls') = Len(calls) + 1
        /\ SubSeq(calls', 1, Len(calls)) = calls
        /\ \/ pc = "loop" /\ Last(calls').list = NOLIST
           \/ /\ pc = "tokens"
              /\ Last(calls').list \in {LIST_ONGOING, LIST_LAST}
              /\ is_list_entry(curr_token_buff', MAX_LINE_LEN).ok
              /\ ~is_list_head(curr_token_buff', MAX_LINE_LEN).ok
              /\ ~is_list_start(curr_token_buff')
              /\ ~is_list_end(curr_token_buff')
              /\ Last(calls').v = is_list_entry(curr_token_buff', MAX_LINE_LEN).v

\* C11: Cinic_parse invokes the callback only for key=value records and for
\* list entries; section headers, list heads, opening and closing brackets,
\* blank lines and comment lines cause no callback, so the list state passed
\* to a callback is NoList, ListOngoing or ListLast, never ListHead or ListOpen.
C11_CallbackOnlyForRecordsAndEntries ==
    [](C11_Calls /\ C11_Silent) /\ [][C11_Step]_vars

\* a record and then a list entry were delivered, with a head line and a
\* bracket line between them that caused no callback
C11_Witness ==
    /\ ln = 4
    /\ pc = "loop"
    /\ SilentLine(2) /\ SilentLine(3)
    /\ is_list_head(normalize(lines[2]), MAX_LINE_LEN).ok
    /\ is_list_start(normalize(lines[3]))
    /\ Len(calls) = 2
    /\ calls[1].list = NOLIST /\ calls[1].ln = 1
    /\ calls[2].list = LIST_LAST /\ calls[2].ln = 4

(***************************************************************************)
(* Sections and records inside an open list                                *)
(***************************************************************************)
\* line h is read while a list is open
InOpenList(h) == before[h].list \in {LIST_HEAD, LIST_OPEN, LIST_ONGOING, LIST_LAST}

\* C12: while a list is open (ListHead, ListOpen, ListOngoing or ListLast) a
\* section header line is the fatal error NestedList, and so is a key=value
\* record line read with a section set or with global records allowed; no
\* callback is invoked for that line.
C12_NestedInOpenList ==
    \A h \in 1..ln :
        InOpenList(h) =>
            /\ IsSectionText(lines[h]) => FatalAt(h, CINIC_NESTED)
            /\ (lines[h] \in AllRecordTexts
                    /\ (before[h].section # NUL \/ ALLOW_GLOBAL_RECORDS)) =>
                  FatalAt(h, CINIC_NESTED)

\* a record line was read in a section, after the first entry of a list
C12_Witness ==
    /\ ln = 4
    /\ before[4].list = LIST_ONGOING
    /\ before[4].section = "s"
    /\ ~ALLOW_GLOBAL_RECORDS
    /\ lines[4] \in AllRecordTexts
    /\ FatalAt(4, CINIC_NESTED)

(***************************************************************************)
(* Fatal errors                                                            *)
(***************************************************************************)
\* the kinds of fatal parse error
FatalKinds == (CINIC_SUCCESS + 1)..(CINIC_SENTINEL - 1)

\* the diagnostic of a fatal error of kind e at line n
Diagnostic(e, n) ==
    "Cinic: failed to parse line " \o ToString(n) \o " -- "
        \o cinic_error_strings[e] \o "\n"

\* the parse has ended with a fatal error: it is at the last line read, has
\* not returned, and the one diagnostic printed carries the number of that
\* line and the message of the error kind; each kind has a message of its own
C13_Raised ==
    /\ pc = "exited" =>
            /\ ln >= 1 /\ exit_ln = ln /\ Len(lines) = ln
            /\ exit_error \in FatalKinds
            /\ stderr = Diagnostic(exit_error, ln)
            /\ ~eof
    /\ pc # "exited" => stderr = NUL
    /\ \A e1, e2 \in FatalKinds :
            cinic_error_strings[e1] = cinic_error_strings[e2] => e1 = e2

\* after a fatal error no callback is invoked, no line is read, and the parse
\* does not return; raising the error invokes no callback either
C13_Terminal ==
    /\ pc = "exited" =>
            /\ pc' = "exited"
            /\ calls' = calls /\ lines' = lines /\ ln' = ln
            /\ rc' = rc /\ eof' = eof
            /\ exit_error' = exit_error /\ exit_ln' = exit_ln /\ stderr' = stderr
    /\ (pc # "exited" /\ pc' = "exited") => calls' = calls

\* C13: a fatal parse error is terminal: once it is raised at line n no
\* callback is invoked, no later line is read and the parse never ends with
\* success; the diagnostic carries the 1-based number n of the offending
\* physical line and the message bound to the error kind.
C13_FatalIsTerminal == [](C13_Raised) /\ [][C13_Terminal]_vars

\* a missing comma was reported at line 4, after a comment line and after the
\* callback for the entry before
C13_Witness ==
    /\ pc = "exited"
    /\ exit_error = CINIC_MISSING_COMMA
    /\ ln = 4
    /\ \E h \in 1..3 : is_comment_line(lines[h])
    /\ calls # <<>>
    /\ stderr = "Cinic: failed to parse line 4 -- malformed list entry (previous missing comma?)\n"

(***************************************************************************)
(* Line numbers                                                            *)
(***************************************************************************)
\* t occurs in s
Contains(s, t) ==
    \E i \in 1..(Len(s) - Len(t) + 1) : SubSeq(s, i, i + Len(t) - 1) = t

\* every invocation carries the number of a line that has been read and that
\* holds the value delivered (and the key, for a record); the numbers of
\* successive invocations do not decrease
C14_Numbers ==
    /\ Len(lines) = ln
    /\ \A i \in 1..Len(calls) :
            /\ calls[i].ln \in 1..ln
            /\ calls[i].v # NUL
            /\ Contains(lines[calls[i].ln], calls[i].v)
            /\ calls[i].list = NOLIST => Contains(lines[calls[i].ln], calls[i].k)
    /\ \A i, j \in 1..Len(calls) : i < j => calls[i].ln <= calls[j].ln

\* an invocation carries the 1-based index of the line being processed, which
\* is the last physical line read, blank and comment lines counted
C14_Current ==
    calls' # calls =>
        /\ lines' # <<>>
        /\ Last(calls').ln = Len(lines')

\* C14: the line number passed to every callback is the 1-based index of the
\* physical line that holds the record or entry, every line read counted
\* (blank and comment-only lines too); so the line numbers of successive
\* callbacks never decrease.
C14_LineNumbers == [](C14_Numbers) /\ [][C14_Current]_vars

\* records on lines 2 and 4, after a comment line and a blank line
C14_Witness ==
    /\ ln = 4
    /\ is_comment_line(lines[1])
    /\ is_empty_line(lines[3])
    /\ Len(calls) = 2
    /\ calls[1].ln = 2 /\ calls[2].ln = 4

(***************************************************************************)
(* Over-long lines                                                         *)
(***************************************************************************)
\* line h ended the parse with TooLong
TooLongAt(h) == pc = "exited" /\ exit_error = CINIC_TOOLONG /\ exit_ln = h

\* C15: a physical line whose raw length as read (newline included) exceeds
\* MAX_LINE_LEN is the fatal error TooLong at that line, blank and
\* comment-only lines too; a line of at most MAX_LINE_LEN characters is never
\* rejected as TooLong.
C15_TooLong ==
    \A h \in 1..ln :
        IF Exceeds(before[h].len, MAX_LINE_LEN)
        THEN FatalAt(h, CINIC_TOOLONG)
        ELSE ~TooLongAt(h)

\* the same for the lines shorter than 2^32 characters, whose length the
\* uint32_t bytes_read holds unchanged
TooLongBelow32Bits ==
    \A h \in 1..ln :
        before[h].len.hi < Half =>
            IF Exceeds(before[h].len, MAX_LINE_LEN)
            THEN FatalAt(h, CINIC_TOOLONG)
            ELSE ~TooLongAt(h)

\* a blank line of MAX_LINE_LEN + 1 characters was rejected after a record
\* line of MAX_LINE_LEN characters was accepted
TooLongBlankLine ==
    /\ ln = 2
    /\ before[1].len = [hi |-> 0, lo |-> MAX_LINE_LEN]
    /\ Len(CallsAt(1)) = 1
    /\ before[2].len = [hi |-> 0, lo |-> MAX_LINE_LEN + 1]
    /\ is_empty_line(lines[2])
    /\ TooLongAt(2)

(***************************************************************************)
(* Blank and comment lines                                                 *)
(***************************************************************************)
\* the line holds nothing but whitespace, or a comment after whitespace
IsBlankOrComment(l) == Squeeze(l) = NUL \/ At(Squeeze(l), 1) \in {"#", ";"}

\* the step leaves everything but the count of lines as it was
OnlyLineCounted ==
    /\ ln' = ln + 1
    /\ pc' = pc /\ rc' = rc
    /\ section' = section /\ key' = key /\ val' = val
    /\ list' = list /\ islast' = islast
    /\ calls' = calls
    /\ exit_error' = exit_error /\ exit_ln' = exit_ln /\ stderr' = stderr

\* C16 as stated: a blank or comment-only line is skipped in every parser
\* state, also while a list is open: no callback, no error, and the section,
\* the list key and the list state stay as they are; only the line counter
\* advances.
C16_BlankSkipped ==
    [][(lines' # lines /\ IsBlankOrComment(Last(lines'))) => OnlyLineCounted]_vars

\* C16 amended: so is skipped a blank or comment-only line of at most
\* MAX_LINE_LEN characters as read.
C16_ShortBlankSkipped ==
    [][(lines' # lines /\ IsBlankOrComment(Last(lines'))
            /\ ~Exceeds(Last(before').len, MAX_LINE_LEN)) => OnlyLineCounted]_vars

\* a blank line of MAX_LINE_LEN characters was skipped after the first entry
\* of a list
C16_Witness ==
    /\ ln = 2
    /\ pc = "loop"
    /\ before[2].list = LIST_ONGOING
    /\ Squeeze(lines[2]) = NUL
    /\ before[2].len = [hi |-> 0, lo |-> MAX_LINE_LEN]
    /\ list = LIST_ONGOING /\ key = "k"
    /\ Len(calls) = 1

(***************************************************************************)
(* Unrecognised tokens                                                     *)
(***************************************************************************)
\* s is a run of one or more allowed characters
AllAllowed(s) == s # NUL /\ \A i \in 1..Len(s) : is_allowed(At(s, i), FALSE)

\* tok reads as a list head `name =`, a bracket, or a list entry `name` or
\* `name ,`
ReadsAsListToken(tok) ==
    \/ tok \in {"[", "]"}
    \/ LET body == IF At(tok, Len(tok)) \in {"=", ","}
                   THEN Take(tok, Len(tok) - 1) ELSE tok
       IN  AllAllowed(strip_tws(body))

\* the line the token loop is working on is neither blank, comment, section
\* header nor record
ListCandidate(l) ==
    /\ ~IsBlankOrComment(l)
    /\ ~is_section_line(normalize(l), MAX_LINE_LEN).ok
    /\ ~is_record_line(normalize(l), MAX_LINE_LEN).ok

C18_OneCharDelimiter ==
    pc # "start" =>
        IF Len(section_delim) = 1
        THEN pc # "init_exited" /\ SECTION_NS_SEP = section_delim
        ELSE /\ pc = "init_exited"
             /\ SECTION_NS_SEP = "."
             /\ stderr # NUL

\* what Cinic_init does: only delimiters of two or more characters are
\* rejected; the empty delimiter is installed
DelimiterOfAtMostOneChar ==
    pc # "start" =>
        IF Len(section_delim) <= 1
        THEN pc # "init_exited" /\ SECTION_NS_SEP = section_delim
        ELSE /\ pc = "init_exited"
             /\ SECTION_NS_SEP = "."
             /\ stderr = "Invalid section delimiter specified: '"
                            \o section_delim \o "' -- must be a single char\n"

\* a file was parsed after the empty delimiter was installed
EmptyDelimiterInstalled ==
    /\ section_delim = NUL
    /\ SECTION_NS_SEP = NUL
    /\ pc = "returned" /\ eof
    /\ ln = 1

(***************************************************************************)
(* Line normalization                                                      *)
(***************************************************************************)
\* the three steps have been applied to the buffer
Normalized == pc \in {"normalized", "section", "not_section"}

\* C19: line normalization (strip_lws, then strip_comment, then strip_tws) is
\* idempotent: normalizing the normalized line returns it unchanged; the
\* normalized line has no leading whitespace, no trailing whitespace and holds
\* neither '#' nor ';'; an all-whitespace or comment-only line normalizes to
\* the empty string.
C19_NormalizeIdempotent ==
    Normalized =>
        /\ strip_tws(strip_comment(strip_lws(buff__))) = buff__
        /\ ~isspace(At(buff__, 1))
        /\ ~isspace(At(buff__, Len(buff__)))
        /\ \A i \in 1..Len(buff__) : At(buff__, i) \notin {"#", ";"}
        /\ IsBlankOrComment(lines[1]) => buff__ = NUL
        /\ buff__ # NUL => Contains(lines[1], buff__)

\* whitespace before the text, and whitespace and a comment after it, were
\* taken off
C19_Witness ==
    /\ pc = "normalized"
    /\ lines[1] = " a #\n"
    /\ buff__ = "a"

(***************************************************************************)
(* Section headers                                                         *)
(***************************************************************************)
\* l is `[`, whitespace, the characters i..j all allowed, whitespace, `]`
SectionShape(l, i, j) ==
    /\ At(l, 1) = "[" /\ At(l, Len(l)) = "]"
    /\ \A p \in 2..(i - 1) : isspace(At(l, p))
    /\ \A p \in i..j : is_allowed(At(l, p), FALSE)
    /\ \A p \in (j + 1)..(Len(l) - 1) : isspace(At(l, p))

NameBounds(l) ==
    { b \in (2..(Len(l) - 1)) \X (2..(Len(l) - 1)) :
        b[1] <= b[2] /\ SectionShape(l, b[1], b[2]) }

\* C20: on a normalized line is_section_line returns true exactly when the
\* line is `[`, optional whitespace, a run of one or more allowed characters
\* without embedded whitespace, optional whitespace, `]` and nothing else, and
\* it then extracts exactly that run as the section name; it returns false for
\* an empty body (`[]`, `[ ]`), a name with embedded whitespace (`[a b]`),
\* disallowed characters and anything after `]`.
C20_SectionLine ==
    pc \in {"section", "not_section"} =>
        /\ (pc = "section") = (NameBounds(buff__) # {})
        /\ pc = "section" =>
                \A b \in NameBounds(buff__) : section = SubSeq(buff__, b[1], b[2])
        /\ pc = "not_section" => section = NUL
        /\ buff__ \in {"[]", "[ ]", "[a b]", "[$]", "[a$]", "[a]a", "[a] ]", "a]", "[a"}
                => pc = "not_section"

\* the name was taken from between the blanks inside the brackets
C20_Witness ==
    /\ pc = "section"
    /\ buff__ = "[ ab ]"
    /\ section = "ab"

(***************************************************************************)
(* Record lines                                                            *)
(***************************************************************************)
\* l is the characters 1..i all allowed (the key), whitespace, `=` at e,
\* whitespace, and from j to the end allowed characters and whitespace that
\* start and end with an allowed character (the value)
RecordShape(l, i, e, j) ==
    /\ 1 <= i /\ i < e /\ e < j /\ j <= Len(l)
    /\ \A p \in 1..i : is_allowed(At(l, p), FALSE)
    /\ \A p \in (i + 1)..(e - 1) : isspace(At(l, p))
    /\ At(l, e) = "="
    /\ \A p \in (e + 1)..(j - 1) : isspace(At(l, p))
    /\ is_allowed(At(l, j), FALSE) /\ is_allowed(At(l, Len(l)), FALSE)
    /\ \A p \in j..Len(l) : is_allowed(At(l, p), TRUE)

RecordBounds(l) ==
    { b \in (1..Len(l)) \X (1..Len(l)) \X (1..Len(l)) :
        RecordShape(l, b[1], b[2], b[3]) }

\* C21: on a normalized line is_record_line returns true exactly when the
\* line is a non-empty run of allowed characters (the key), optional
\* whitespace, a single '=', optional whitespace and a non-empty value of
\* allowed characters that may contain embedded whitespace, with nothing
\* else; it then extracts exactly the key and the value; a second '=', an
\* empty key or an empty value makes it return false.
C21_RecordLine ==
    (pc \in {"record", "not_record"} /\ normalize(buff__) = buff__) =>
        /\ (pc = "record") = (RecordBounds(buff__) # {})
        /\ pc = "record" =>
                \A b \in RecordBounds(buff__) :
                    /\ key = SubSeq(buff__, 1, b[1])
                    /\ val = SubSeq(buff__, b[3], Len(buff__))
        /\ pc = "not_record" => key = NUL /\ val = NUL
        /\ buff__ \in {"k=v=v", "k==v", "=v", "k=", "k =", "= v", "=", "k", "k v"}
                => pc = "not_record"
        /\ buff__ = "k = v" => pc = "record" /\ key = "k" /\ val = "v"

\* a value with a blank inside was extracted whole
C21_Witness ==
    /\ pc = "record"
    /\ buff__ = "k=v k"
    /\ key = "k" /\ val = "v k"

(***************************************************************************)
(* List heads                                                              *)
(***************************************************************************)
\* l is the characters 1..i all allowed (the key), whitespace, and `=` at e
KeyAssign(l, i, e) ==
    /\ 1 <= i /\ i < e /\ e <= Len(l)
    /\ \A p \in 1..i : is_allowed(At(l, p), FALSE)
    /\ \A p \in (i + 1)..(e - 1) : isspace(At(l, p))
    /\ At(l, e) = "="

\* l is `key = [`: the key, `=` with whitespace around it, the opening
\* bracket, and nothing after it
HeadWithBracket(l, i) ==
    \E e \in 1..Len(l) :
        /\ KeyAssign(l, i, e)
        /\ At(l, Len(l)) = At(LIST_BRACKET, 1)
        /\ \A p \in (e + 1)..(Len(l) - 1) : isspace(At(l, p))

\* l is `key =`: the key, whitespace, `=`, and nothing after it
HeadAlone(l, i) == KeyAssign(l, i, Len(l))

EntryCalled == pc \in {"entry", "not_entry", "aborted"}

\* l is the characters 1..i all allowed and nothing else
EntryAlone(l, i) ==
    /\ 1 <= i /\ i = Len(l)
    /\ \A p \in 1..i : is_allowed(At(l, p), FALSE)

\* l is the characters 1..i all allowed, whitespace, and one comma that ends it
EntryWithComma(l, i) ==
    /\ 1 <= i /\ i < Len(l)
    /\ \A p \in 1..i : is_allowed(At(l, p), FALSE)
    /\ \A p \in (i + 1)..(Len(l) - 1) : isspace(At(l, p))
    /\ At(l, Len(l)) = ","

\* l is the characters 1..i all allowed, whitespace, a comma, and something
\* more after the comma
EntryThenMore(l, i) ==
    \E c \in (i + 1)..(Len(l) - 1) :
        /\ 1 <= i
        /\ \A p \in 1..i : is_allowed(At(l, p), FALSE)
        /\ \A p \in (i + 1)..(c - 1) : isspace(At(l, p))
        /\ At(l, c) = ","

\* C23: is_list_entry is a total classifier: for every string it returns a
\* boolean without aborting; true with is_last = true for a run of allowed
\* characters followed by nothing, true with is_last = false when the run is
\* followed by optional whitespace and exactly one comma, and false when
\* anything follows the comma or the comma is duplicated.
C23_ListEntryTotal ==
    EntryCalled =>
        /\ pc # "aborted"
        /\ \A i \in 1..Len(buff__) :
            /\ EntryAlone(buff__, i) => pc = "entry" /\ islast /\ val = buff__
            /\ EntryWithComma(buff__, i) =>
                    pc = "entry" /\ ~islast /\ val = SubSeq(buff__, 1, i)
            /\ EntryThenMore(buff__, i) => pc = "not_entry"

\* what is_list_entry does: the strings in which nothing follows the comma
\* are classified as stated; those in which something follows it abort the
\* process or, the assert compiled out, are accepted as entries
ListEntryUpToComma ==
    EntryCalled =>
        \A i \in 1..Len(buff__) :
            /\ EntryAlone(buff__, i) => pc = "entry" /\ islast /\ val = buff__
            /\ EntryWithComma(buff__, i) =>
                    pc = "entry" /\ ~islast /\ val = SubSeq(buff__, 1, i)
            /\ EntryThenMore(buff__, i) =>
                    \/ pc = "aborted"
                    \/ pc = "entry" /\ ~islast /\ val = SubSeq(buff__, 1, i)

\* the process was aborted by the call with `a , b`
EntryAborted ==
    /\ pc = "aborted"
    /\ buff__ = "a , b"

(***************************************************************************)
(* Successive invocations                                                  *)
(***************************************************************************)
\* the callback has answered the first n invocations as it answered them when
\* the file was parsed before
SameAnswers(n) ==
    \A m \in 1..n :
        m <= Len(calls) /\ m <= Len(parsed[again].calls)
            => calls[m].ret = parsed[again].calls[m].ret

\* C24: Cinic_parse keeps no state between invocations: parsing the same
\* input twice under the same configuration (in either order relative to
\* other parses) yields the same sequence of callback arguments and the same
\* result.
C24_NoStateBetweenInvocations ==
    again # 0 =>
        LET before_ == parsed[again] IN
        /\ \A i \in 1..Len(calls) :
                SameAnswers(i - 1) =>
                    /\ i <= Len(before_.calls)
                    /\ Args(calls[i]) = Args(before_.calls[i])
        /\ SameAnswers(Len(calls)) =>
                /\ pc \notin {"exited", "aborted"}
                /\ pc = "returned" =>
                        /\ ArgsOf(calls) = ArgsOf(before_.calls)
                        /\ rc = before_.rc
                        /\ lines = before_.lines

\* a file that leaves a list open was parsed, then another file, then the
\* first one again, with the same callbacks and the same result
C24_Witness ==
    /\ Len(parsed) = 2
    /\ again = 1
    /\ pc = "returned"
    /\ parsed[1].lines = <<"k=[a,\n">>
    /\ parsed[2].lines # parsed[1].lines
    /\ parsed[2].calls # <<>>
    /\ lines = <<"k=[a,\n">>
    /\ Len(calls) = 1 /\ calls = parsed[1].calls
    /\ rc = parsed[1].rc

(***************************************************************************)
(* Error messages                                                          *)
(***************************************************************************)
\* C25: Cinic_err2str maps every error kind from CINIC_SUCCESS up to but
\* excluding CINIC_SENTINEL to a non-NULL message, a distinct one per kind,
\* and for any kind >= CINIC_SENTINEL it never indexes the table but
\* terminates the process with status 13.
C25_Err2str ==
    err2str.made =>
        IF err2str.errnum < CINIC_SENTINEL
        THEN /\ pc = "err2str_returned"
             /\ err2str.indexed /\ err2str.status = 0
             /\ err2str.ret # NUL
             /\ \A e \in CINIC_SUCCESS..(CINIC_SENTINEL - 1) :
                    cinic_error_strings[e] = err2str.ret => e = err2str.errnum
             /\ stderr = NUL
        ELSE /\ pc = "err2str_exited"
             /\ ~err2str.indexed
             /\ err2str.status = 13
             /\ err2str.ret = NUL

\* the call with CINIC_SENTINEL itself ended the process
C25_Witness ==
    /\ err2str.made
    /\ err2str.errnum = CINIC_SENTINEL
    /\ pc = "err2str_exited"
    /\ err2str.status = 13
    /\ stderr = "Invalid cinic error number: '13'\n"

(***************************************************************************)
(* The end of the input                                                    *)
(***************************************************************************)
\* C26: incomplete lists are detected: Cinic_parse does not end successfully
\* (return 0) when the input ends while the list state is not NoList, i.e.
\* after a list head, an opening bracket or entries that were never followed
\* by a closing bracket.
C26_IncompleteListDetected ==
    (pc = "returned" /\ eof /\ rc = 0) => list = NOLIST

(***************************************************************************)
(* The section of a callback                                               *)
(***************************************************************************)
\* the section headers among the lines before line h that were accepted: read
\* with no list open
HeadersBefore(h) ==
    { i \in 1..(h - 1) : IsSectionText(lines[i]) /\ before[i].list = NOLIST }

\* the name of the last of them, the empty string if there is none
SectionAt(h) ==
    IF HeadersBefore(h) = {} THEN NUL
    ELSE LET i == CHOOSE m \in HeadersBefore(h) : \A n \in HeadersBefore(h) : n <= m
             t == Squeeze(lines[i])
         IN  SubSeq(t, 2, Len(t) - 1)

\* C27: every callback invoked for a key=value record carries list state
\* NoList, and the section passed to any callback (record or list entry) is
\* the name of the most recently accepted section header preceding that line,
\* or the empty string if no section header has been seen; a rejected line
\* never changes the section seen by later callbacks.
C27_SectionOfCallback ==
    /\ \A i \in 1..Len(calls) :
            /\ lines[calls[i].ln] \in AllRecordTexts => calls[i].list = NOLIST
            /\ calls[i].section = SectionAt(calls[i].ln)
    /\ \A h \in 1..ln :
            (h < ln \/ pc \in {"loop", "returned"}) =>
                (IF h < ln THEN before[h + 1].section ELSE section) = SectionAt(h + 1)
    /\ \A h \in 1..ln :
            (IsSectionText(lines[h]) /\ before[h].list # NOLIST) =>
                h = ln /\ pc = "exited" /\ CallsAt(h) = <<>>

\* a record of section t after a list of section s
C27_Witness ==
    /\ ln = 4
    /\ pc = "loop"
    /\ IsSectionText(lines[1]) /\ IsSectionText(lines[3])
    /\ Len(calls) = 2
    /\ calls[1].ln = 2 /\ calls[1].section = "s"
    /\ calls[2].ln = 4 /\ calls[2].section = "t" /\ calls[2].list = NOLIST

(***************************************************************************)
(* The key and the value of a list entry                                   *)
(***************************************************************************)
\* the text of line l starts with a list head `K =`: after it comes the
\* opening bracket or nothing
StartsWithHead(l, K) ==
    LET t == Squeeze(l) IN
    /\ Take(t, Len(K) + 1) = K \o "="
    /\ At(t, Len(K) + 2) \in {NUL, "["}

\* the lines up to line h on which a list head was accepted: read with no
\* list open
HeadsUpTo(h) ==
    { i \in 1..h : before[i].list = NOLIST /\ \E K \in Keys : StartsWithHead(lines[i], K) }

\* the name of the last of them
HeadKeyAt(h) ==
    LET i == CHOOSE m \in HeadsUpTo(h) : \A n \in HeadsUpTo(h) : n <= m
    IN  CHOOSE K \in Keys : StartsWithHead(lines[i], K)

\* the text t cut at its commas
RECURSIVE SplitAtCommas(_, _)
SplitAtCommas(t, acc) ==
    IF t = NUL THEN (IF acc = NUL THEN <<>> ELSE <<acc>>)
    ELSE IF At(t, 1) = "," THEN <<acc>> \o SplitAtCommas(Adv(t, 1), NUL)
    ELSE SplitAtCommas(Adv(t, 1), acc \o At(t, 1))

\* the entries that stand on line l, in order: what is left of its text
\* without the list head, the brackets and the commas
EntryTexts(l) ==
    LET t  == Squeeze(l)
        t1 == IF \E K \in Keys : StartsWithHead(l, K)
              THEN Adv(t, Len(CHOOSE K \in Keys : StartsWithHead(l, K)) + 1)
              ELSE t
        t2 == IF At(t1, 1) = "[" THEN Adv(t1, 1) ELSE t1
        t3 == IF At(t2, Len(t2)) = "]" THEN Take(t2, Len(t2) - 1) ELSE t2
    IN  SplitAtCommas(t3, NUL)

\* C28: in every list-entry callback (ListOngoing or ListLast) the key
\* argument is the name of the most recently accepted list head, and the
\* value argument is the text of the entry token just classified: no record,
\* entry or rejected token between the head and the entry overwrites the key.
C28_KeyOfEntry ==
    \A i \in 1..Len(calls) :
        calls[i].list \in {LIST_ONGOING, LIST_LAST} =>
            LET h == calls[i].ln
                \* the callback is the m-th of those made for line h
                m == Cardinality({ j \in 1..i : calls[j].ln = h })
            IN  /\ HeadsUpTo(h) # {}
                /\ calls[i].k = HeadKeyAt(h)
                /\ m <= Len(EntryTexts(lines[h]))
                /\ calls[i].v = EntryTexts(lines[h])[m]

\* the entries of a list j were delivered after those of a list k
C28_Witness ==
    /\ ln = 4
    /\ Len(calls) = 3
    /\ calls[1].k = "k" /\ calls[1].v = "a" /\ calls[1].list = LIST_ONGOING
    /\ calls[2].k = "k" /\ calls[2].v = "b" /\ calls[2].list = LIST_LAST
    /\ calls[3].k = "j" /\ calls[3].list \in {LIST_ONGOING, LIST_LAST}
    /\ calls[3].ln = 4

(***************************************************************************)
(* The course of the list state                                            *)
(***************************************************************************)
\* the steps of NoList -> ListHead -> ListOpen -> ListOngoing* -> ListLast
\* -> NoList
ChainPair(prev, next) ==
    \/ prev = NOLIST /\ next = LIST_HEAD
    \/ prev = LIST_HEAD /\ next = LIST_OPEN
    \/ prev = LIST_OPEN /\ next \in {LIST_ONGOING, LIST_LAST}
    \/ prev = LIST_ONGOING /\ next \in {LIST_ONGOING, LIST_LAST}
    \/ prev = LIST_LAST /\ next = NOLIST

IsEntryCall(c) == c.list \in {LIST_ONGOING, LIST_LAST}

\* the list state changes, and an entry is delivered, only by a token whose
\* transition Cinic_get_list_error accepts and that is a step of the chain
C29_Step ==
    /\ list' # list =>
            /\ pc = "tokens"
            /\ ChainPair(list, list')
            /\ Cinic_get_list_error(list, list') = CINIC_SUCCESS
            /\ gle' = [prev |-> list, next |-> list', err |-> CINIC_SUCCESS,
                       made |-> TRUE]
            /\ list' = NOLIST => is_list_end(curr_token_buff')
            /\ list' = LIST_HEAD => is_list_head(curr_token_buff', MAX_LINE_LEN).ok
            /\ list' = LIST_OPEN => is_list_start(curr_token_buff')
    /\ (calls' # calls /\ IsEntryCall(Last(calls'))) =>
            /\ list \in {LIST_OPEN, LIST_ONGOING}
            /\ list' = Last(calls').list
            /\ ChainPair(list, list')

\* the callbacks made since the last list head was accepted: while the list
\* is open they are entries, ListOngoing but for the last one, which is
\* ListLast exactly when the list state is; and between the entries of two
\* lists a list head has been accepted
C29_Runs ==
    /\ list # NOLIST =>
            \A i \in (calls_at_head + 1)..Len(calls) :
                /\ IsEntryCall(calls[i])
                /\ calls[i].list = LIST_LAST => i = Len(calls) /\ list = LIST_LAST
                /\ i = Len(calls) => list = calls[i].list
    /\ list \in {LIST_HEAD, LIST_OPEN} => Len(calls) = calls_at_head
    /\ \A i, j \in 1..Len(calls) :
            (i < j /\ IsEntryCall(calls[i]) /\ IsEntryCall(calls[j])
                   /\ calls[i].list = LIST_LAST) =>
                \E h \in HeadsUpTo(calls[j].ln) : h > calls[i].ln

\* C29: in any parse the list state changes only along transitions that
\* Cinic_get_list_error accepts: NoList -> ListHead -> ListOpen ->
\* ListOngoing* -> ListLast -> NoList; hence, per list, the entry callbacks
\* form a run of zero or more ListOngoing followed by at most one ListLast,
\* and after a ListLast callback no further list-entry callback occurs until
\* a closing bracket, a new list head and a new opening bracket have been
\* processed.
C29_ListStateChain == [](C29_Runs) /\ [][C29_Step]_vars

\* a second list was opened after the last entry of the first one
C29_Witness ==
    /\ ln = 4
    /\ list = LIST_LAST
    /\ Len(calls) = 3
    /\ calls[1].list = LIST_ONGOING /\ calls[2].list = LIST_LAST
    /\ calls[3].list = LIST_LAST
    /\ calls_at_head = 2

(***************************************************************************)
(* The file handle and the line buffer                                     *)
(***************************************************************************)
\* C30: the file handle and the line buffer owned by a parse are released on
\* every path by which Cinic_parse returns to its caller: both at clean end
\* of input and when the callback signals an early stop with a nonzero code.
C30_Released ==
    pc = "returned" => f = "closed" /\ heap = "freed"

\* what Cinic_parse does: both are released when it returns at the end of the
\* input; neither is when it returns what the callback returned
ReleasedAtEndOfInput ==
    pc = "returned" =>
        IF rc = 0
        THEN eof /\ f = "closed" /\ heap = "freed"
        ELSE ~eof /\ f = "open" /\ heap = "allocated"

(***************************************************************************)
(* The delimiter in section names                                          *)
(***************************************************************************)
\* the line h is a section header whose name n contains the delimiter
DelimHeader(h, n) ==
    /\ h \in 1..Len(lines)
    /\ n \in DelimNames(SECTION_NS_SEP)
    /\ lines[h] = "[" \o n \o "]\n"

\* the header at line h is accepted and its name n is handed whole to the
\* callbacks of the lines up to the next header
NameWhole(h, n) ==
    /\ ~(pc = "exited" /\ exit_ln = h)
    /\ ln = h => section = n
    /\ \A i \in 1..Len(calls) :
            /\ calls[i].ln > h
            /\ \A g \in (h + 1)..calls[i].ln : At(lines[g], 1) # "["
            => calls[i].section = n

\* C31: for every configured namespace delimiter character, a section header
\* whose name contains that delimiter as content (e.g. `[a.b.c]` with the
\* delimiter '.') is accepted by is_section_line and the name is passed to
\* callbacks whole, delimiter included, without being split.
C31_DelimiterInName ==
    Len(SECTION_NS_SEP) = 1 /\ pc \notin {"start", "init_exited"} =>
        \A h \in 1..Len(lines) : \A n \in DelimNames(SECTION_NS_SEP) :
            DelimHeader(h, n) => NameWhole(h, n)

\* what the code does: the name is taken whole when the delimiter is one of
\* the characters is_allowed() accepts; with any other delimiter the header is
\* no section line, its `[` is read as the opening bracket of a list and the
\* process exits
DelimiterAllowedInName ==
    Len(SECTION_NS_SEP) = 1 /\ pc \notin {"start", "init_exited"} =>
        \A h \in 1..Len(lines) : \A n \in DelimNames(SECTION_NS_SEP) :
            DelimHeader(h, n) =>
                IF is_allowed(SECTION_NS_SEP, FALSE)
                THEN NameWhole(h, n)
                ELSE /\ ln = h
                     /\ pc = "tokens" \/ (pc = "exited" /\ exit_ln = h
                                            /\ exit_error = CINIC_NOLIST)

\* a record was delivered in the section a.b.c
DelimiterInNameDelivered ==
    /\ SECTION_NS_SEP = "."
    /\ lines = <<"[a.b.c]\n", "k=a\n">>
    /\ Len(calls) = 1 /\ calls[1].section = "a.b.c"

(***************************************************************************)
(* Lists spread over lines                                                 *)
(***************************************************************************)
\* the (list state, section, key, value) of the invocations q
ListArgsOf(q) ==
    [i \in 1..Len(q) |-> [list |-> q[i].list, section |-> q[i].section,
                          k |-> q[i].k, v |-> q[i].v]]

\* the invocations the list L makes when it stands on one line of section s
OneLineCalls(L) ==
    [i \in 1..Len(L.es) |->
        [list |-> IF i < Len(L.es) THEN LIST_ONGOING ELSE LIST_LAST,
         section |-> "s", k |-> L.k, v |-> L.es[i]]]

\* the file that holds the list L on one line
OneLine(L) ==
    <<"[s]\n", L.k \o " = [ "
                \o Join([i \in 1..Len(L.es) |-> L.es[i]], 1) \o " ]\n">>

AllWent == \A i \in 1..Len(calls) : calls[i].ret = 0

\* C32: the callback sequence produced for a well-formed list does not depend
\* on how its tokens (head `key =`, opening bracket, entries, closing bracket)
\* are distributed over physical lines: for any split of the token sequence at
\* token boundaries into one or more lines, Cinic_parse raises no error and
\* yields the same sequence of (list state, section, key, value) callbacks as
\* the single-line form.
C32_SplitIndependent ==
    AllWent =>
        /\ pc \notin {"exited", "aborted"}
        /\ pc = "returned" =>
                \A L \in SplitLists :
                    lines \in FilesOf(L) => ListArgsOf(calls) = OneLineCalls(L)

\* the single-line form makes the invocations OneLineCalls
SingleLineForm ==
    \A L \in SplitLists :
        /\ OneLine(L) \in FilesOf(L)
        /\ lines = OneLine(L) /\ AllWent =>
                /\ pc \notin {"exited", "aborted"}
                /\ pc = "returned" => ListArgsOf(calls) = OneLineCalls(L)

\* what Cinic_parse does: the invocations are those of the single-line form
\* unless a line of the split reads as a section header (the opening bracket,
\* the only entry and the closing bracket on a line of their own), which ends
\* the process with CINIC_NESTED
SplitIndependentUnlessHeader ==
    AllWent =>
        /\ pc # "aborted"
        /\ pc = "exited" =>
                /\ ln > 1
                /\ is_section_line(normalize(lines[ln]), MAX_LINE_LEN).ok
                /\ exit_error = CINIC_NESTED /\ exit_ln = ln
        /\ pc = "returned" =>
                \A L \in SplitLists :
                    lines \in FilesOf(L) => ListArgsOf(calls) = OneLineCalls(L)
        /\ \A h \in 2..ln :
                is_section_line(normalize(lines[h]), MAX_LINE_LEN).ok
                    => pc = "exited" /\ exit_ln = h

\* a list of three entries, one token to a line, was delivered
SplitDelivered ==
    /\ lines = <<"[s]\n", "k =\n", "[\n", "a,\n", "b,\n", "c\n", "]\n">>
    /\ pc = "returned"
    /\ ListArgsOf(calls) = OneLineCalls([k |-> "k", es |-> <<"a", "b", "c">>])

(***************************************************************************)
(* What a line that fails has delivered                                    *)
(***************************************************************************)
\* C33: if a physical line produces a fatal error, no callback has been
\* invoked for any token of that line: a multi-token list line is either
\* delivered completely or not at all.
C33_LineAtomic ==
    pc = "exited" => \A i \in 1..Len(calls) : calls[i].ln # exit_ln

\* the part of the line that fails which stands before the token that raised
\* the error: nothing, when the line failed as a whole (too long, a section
\* header, a record)
BeforeOffendingToken ==
    LET buff == normalize(lines[ln]) IN
    IF \/ Exceeds(before[ln].len, MAX_LINE_LEN)
       \/ is_section_line(buff, MAX_LINE_LEN).ok
       \/ is_record_line(buff, MAX_LINE_LEN).ok
    THEN NUL
    ELSE Take(buff, Len(buff) - Len(next_token) - Len(curr_token_buff))

\* C33, as the code has it: when a physical line produces a fatal error, the
\* callbacks invoked for that line are those of the list entries that stand
\* before the token that raised the error, in order; none is invoked for that
\* token or for what follows it.
C33_DeliveredUpToOffendingToken ==
    pc = "exited" /\ ln >= 1 =>
        /\ exit_ln = ln
        /\ [i \in 1..Len(CallsAt(ln)) |-> CallsAt(ln)[i].v]
                = EntryTexts(BeforeOffendingToken)
        /\ \A i \in 1..Len(calls) : calls[i].ret = 0

\* the doubled comma of `k=[a,,b]` ended the process after `a` was delivered
C33_Witness ==
    /\ pc = "exited"
    /\ Last(lines) = "k=[a,,b]\n"
    /\ exit_error = CINIC_MALFORMED
    /\ Len(CallsAt(ln)) = 1
    /\ CallsAt(ln)[1].v = "a" /\ CallsAt(ln)[1].list = LIST_ONGOING
    /\ curr_token_buff = "," /\ next_token = "b]"

(***************************************************************************)
(* The token loop                                                          *)
(***************************************************************************)
\* the call of get_list_token that the token loop is about to make returns
\* NULL, or a pointer beyond the start of its token and not beyond the end of
\* the line; it returns NULL when nothing but whitespace is left
C34_Progress ==
    pc = "tokens" =>
        LET t == get_list_token(next_token, curr_token_buff, MAX_LINE_LEN)
            start == strip_lws(next_token)
        IN  /\ t.null <=> start = NUL
            /\ ~t.null =>
                    /\ Len(t.next) < Len(start)
                    /\ t.next = Adv(start, Len(start) - Len(t.next))
                    /\ t.buff = Take(start, Len(start) - Len(t.next))

\* one call of get_list_token in the token loop: at the end of the line it
\* returns NULL and the loop ends; before the end it extracts a token that is
\* not empty, at the first character that is no whitespace, and returns the
\* pointer to what follows the token
C34_Step ==
    pc = "tokens" =>
        LET start == strip_lws(next_token) IN
        IF start = NUL
        THEN pc' = "loop" /\ calls' = calls /\ list' = list
        ELSE /\ pc' # "loop"
             /\ curr_token_buff' # NUL
             /\ start = curr_token_buff' \o next_token'
             /\ Len(next_token') < Len(next_token)

\* C34: the token loop of Cinic_parse terminates on every line: each call of
\* get_list_token either returns NULL or returns a cursor strictly beyond the
\* start of the token it just extracted (never beyond the terminating NUL),
\* tokens are produced in left-to-right order, and NULL is returned once the
\* cursor has reached the end of the line.
C34_TokenLoopTerminates ==
    /\ [](C34_Progress)
    /\ [][C34_Step]_vars
    /\ (pc = "tokens") ~> (pc # "tokens")

\* the four tokens of `a=[a,a]` that follow the head were extracted, two
\* entries were delivered, and the loop ended at the end of the line
C34_Witness ==
    /\ lines = <<"a=[a,a]\n">>
    /\ pc = "loop"
    /\ Len(calls) = 2
    /\ next_token = NUL
    /\ list = NOLIST

(***************************************************************************)
(* Lines as long as a line may be                                          *)
(***************************************************************************)
\* a buffer size that line h cannot exceed
Roomy(h) == Len(lines[h]) + 1

\* the section headers read before line h, and the name of the last of them
\* as it stands on its line
HeadersAbove(h) ==
    { g \in 1..(h - 1) : is_section_line(normalize(lines[g]), Roomy(g)).ok }

WholeSection(h) ==
    IF HeadersAbove(h) = {} THEN NUL
    ELSE LET g == CHOOSE m \in HeadersAbove(h) : \A n \in HeadersAbove(h) : n <= m
         IN  is_section_line(normalize(lines[g]), Roomy(g)).name

\* the first token of line h as it stands on its line, and whether it is the
\* only one
WholeToken(h) == get_list_token(normalize(lines[h]), NUL, Roomy(h))

\* the invocation c, made for line h, was handed the strings extracted from
\* the line whole
HandedWhole(c, h) ==
    /\ c.section = WholeSection(h)
    /\ c.list = NOLIST =>
            /\ c.k = is_record_line(normalize(lines[h]), Roomy(h)).k
            /\ c.v = is_record_line(normalize(lines[h]), Roomy(h)).v
    /\ c.list # NOLIST /\ WholeToken(h).next = NUL =>
            c.v = is_list_entry(WholeToken(h).buff, Roomy(h)).v

\* C35: for every line that passes the length check (raw length <=
\* MAX_LINE_LEN), the section name, key and value strings handed to the
\* callback are the complete extracted substrings of the line: copying into
\* the MAX_LINE_LEN-sized buffers never truncates them, including for a final
\* line without newline that is exactly MAX_LINE_LEN characters long.
C35_NoTruncation ==
    \A i \in 1..Len(calls) :
        ~Exceeds(before[calls[i].ln].len, MAX_LINE_LEN)
            => HandedWhole(calls[i], calls[i].ln)

\* what the code does: the strings are whole but for a list entry that fills
\* a last line of MAX_LINE_LEN characters, whose token loses its last
\* character in curr_token_buff: the last character of the value, or the comma
\* (the entry is then delivered as the last of its list)
TruncatedAtFullLastLine ==
    \A i \in 1..Len(calls) :
        LET h == calls[i].ln
            c == calls[i]
        IN  IF c.list # NOLIST /\ Len(WholeToken(h).buff) = MAX_LINE_LEN
            THEN /\ lines[h] = WholeToken(h).buff
                 /\ c.v = Take(lines[h], MAX_LINE_LEN - 1)
                 /\ c.list = LIST_LAST
            ELSE HandedWhole(c, h)

\* a record that fills a last line of MAX_LINE_LEN characters was delivered
\* whole
FullRecordDelivered ==
    /\ lines = <<"[s]\n", "k=" \o Word(MAX_LINE_LEN - 2)>>
    /\ Len(calls) = 1
    /\ calls[1].v = Word(MAX_LINE_LEN - 2)

(***************************************************************************)
(* The assertion of is_list_entry                                          *)
(***************************************************************************)
\* the token tok is an allowed word, then whitespace or none, then one comma
\* or none, and nothing else
WordThenComma(tok) ==
    LET rest == strip_lws(skip_allowed(tok, FALSE)) IN
    /\ At(tok, 1) # NUL /\ is_allowed(At(tok, 1), FALSE)
    /\ rest \in {NUL, ","}

\* C36: within Cinic_parse the assertion at the end of is_list_entry
\* (`assert(! *line)`) can never fail: every token that get_list_token
\* produces from a normalized line, and that reaches is_list_entry after
\* failing is_list_head and is_list_start, has nothing after its optional
\* single comma.
C36_AssertionHolds ==
    /\ pc # "aborted"
    /\ pc = "tokens" =>
            LET t     == get_list_token(next_token, curr_token_buff, MAX_LINE_LEN)
                entry == is_list_entry(t.buff, MAX_LINE_LEN)
            IN  /\ ~t.null
                /\ ~is_list_head(t.buff, MAX_LINE_LEN).ok
                /\ ~is_list_start(t.buff)
                /\ entry.ok
                => ~entry.assert_fails /\ WordThenComma(t.buff)

\* an entry with whitespace before its comma was accepted, and the last entry
\* after it
C36_Witness ==
    /\ lines = <<"a=[a ,a\n">>
    /\ Len(calls) = 2
    /\ calls[1].v = "a" /\ calls[1].list = LIST_ONGOING
    /\ calls[2].v = "a" /\ calls[2].list = LIST_LAST
    /\ pc = "loop"

\* the calls of populate_lua_state made at a list head, in this parse
HeadCalls == { h \in 1..Len(calls) : calls[h].list = LIST_HEAD }

\* the entries of the list whose head is call h: the values of the calls made
\* for list entries right after it, in the order of the input
EntriesOf(h) ==
    LET stops == { j \in (h + 1)..Len(calls) :
                        calls[j].list \notin {LIST_ONGOING, LIST_LAST} }
        last  == IF stops = {} THEN Len(calls) ELSE Least(stops) - 1
    IN  [i \in 1..(last - h) |-> calls[h + i].v]

\* where the table of that list is in the result
ListPath(h) == Append(SectionPath(calls[h].section), StrKey(calls[h].k))

\* the table that call h created is (still) in the result
ListKept(h) ==
    /\ IsTable(lua, ListPath(h))
    /\ lua[ListPath(h)].id = <<h, Len(ListPath(h))>>

\* the integer keys of the table at path p
IntegerKeys(p) ==
    { q[Len(q)].i : q \in { r \in DOMAIN lua :
                              Under(p, r) /\ Len(r) = Len(p) + 1 /\ r[Len(r)].i > 0 } }

\* C37: in the Lua binding idx is 1 after every list head, and the n entries
\* of each list are at the integer keys 1..n of the table of that list, in
\* the order of the input, within one parse and in a parse that follows
\* another; every entry belongs to a list whose head was handed over, and the
\* table of the list read last is in the result.
C37_ListsIndexedFromOne ==
    pc \in {"lua_loop", "lua_tokens", "lua_returned", "lua_error"} =>
        /\ (calls # <<>> => (calls[Len(calls)].list = LIST_HEAD => idx = 1))
        /\ \A j \in 1..Len(calls) :
                calls[j].list \in {LIST_ONGOING, LIST_LAST} =>
                    \E h \in HeadCalls : h < j /\ j <= h + Len(EntriesOf(h))
        /\ \A h \in HeadCalls :
            /\ h + Len(EntriesOf(h)) = Len(calls) =>
                    ListKept(h) /\ idx = Len(EntriesOf(h)) + 1
            /\ ListKept(h) =>
                /\ IntegerKeys(ListPath(h)) = 1..Len(EntriesOf(h))
                /\ \A i \in 1..Len(EntriesOf(h)) :
                    lua[Append(ListPath(h), IntKey(i))] = StringNode(EntriesOf(h)[i])

\* a second parse, made after one that raised an error, returned a table with
\* two lists of two entries, the second one read from several lines
C37_Witness ==
    /\ Len(parsed) = 2 /\ parsed[2].ended = "lua_error"
    /\ pc = "lua_returned"
    /\ lines = <<"k=[a,b]\n", "j=[\n", "a,\n", "b\n">>
    /\ lua[<<StrKey("k"), IntKey(1)>>] = StringNode("a")
    /\ lua[<<StrKey("k"), IntKey(2)>>] = StringNode("b")
    /\ lua[<<StrKey("j"), IntKey(1)>>] = StringNode("a")
    /\ lua[<<StrKey("j"), IntKey(2)>>] = StringNode("b")
    /\ idx = 3

Min3(a, b, c) == Least({a, b, c})

\* C38: when cp_to_buff returns, only dst[0..buffsz-1] has been written (the
\* bytes behind are as before), one of dst[0..buffsz-1] is NUL, and the string
\* in dst is the first min(null_at, buffsz - 1, strlen(src)) characters of src.
C38_CopyBoundedAndTerminated ==
    pc = "cp_done" =>
        /\ cp.written \subseteq 0..(cp.buffsz - 1)
        /\ \A i \in (cp.buffsz + 1)..(cp.buffsz + Behind) : cp.dst[i] = cp.dst[cp.buffsz + Behind]
        /\ \E i \in 1..cp.buffsz : cp.dst[i] = NUL
        /\ CString(cp.dst) = Take(cp.src, Min3(cp.null_at, cp.buffsz - 1, Len(cp.src)))
        /\ CString(cp.dst) = cp_to_buff(cp.src, cp.buffsz, cp.null_at)

\* a source longer than the buffer was cut at buffsz - 1 characters, null_at
\* being past the buffer, and the bytes behind the buffer are not NUL
C38_Witness ==
    /\ pc = "cp_done"
    /\ cp.src = "aba" /\ cp.buffsz = 3 /\ cp.null_at = 5
    /\ SubSeq(cp.dst, 1, 4) = <<"a", "b", NUL, "x">>

====
